---- MODULE Spec2Model ----
(***************************************************************************)
(* A model of the Retry round tripper of maruel/roundtrippers and of its   *)
(* ExponentialBackoff policy.                                              *)
(*                                                                         *)
(* Time is counted in whole seconds on one clock, `now`.  A time.Duration  *)
(* is an int64 count of nanoseconds; the model writes it in sign and       *)
(* magnitude with three base-10^9 digits,                                  *)
(*     [neg, gs, s, ns]  =  +/- (gs * 10^18 + s * 10^9 + ns) nanoseconds,  *)
(* so that the product time.Second * n keeps the width int64 gives it.     *)
(***************************************************************************)
EXTENDS Integers, Sequences, FiniteSets, TLC

VARIABLES
    pc,         \* where Retry.RoundTrip stands: idle, transport, loop, select, done
    Policy,     \* r.Policy: the policy the Retry is configured with (NilPolicy: unset)
    policy,     \* the policy RoundTrip works with
    callerReq,  \* the caller's request: its Body stream and its GetBody
    origBody,   \* the bytes of the request body as the caller built it
    req,        \* the clone cloneRequestWithBody made: Body, GetBody
    now,        \* the clock, in seconds
    start,      \* start := time.Now()
    try,        \* the loop counter of RoundTrip
    resp,       \* the response of the latest attempt (NilResp: nil)
    err,        \* the error of the latest attempt (NoError: nil)
    sleep,      \* the duration handed to timeAfter
    cancelled,  \* ctx.Err() != nil
    calls,      \* how many times r.Transport.RoundTrip was invoked
    waits,      \* how many waits ran to their end
    sent,       \* the bytes the transport could read from req.Body at the latest call
    closed,     \* ids of the responses whose body Retry drained and closed
    ret,        \* what RoundTrip returned: [resp, err]
    exit,       \* the return statement RoundTrip left by
    arg,        \* the arguments of a direct call of a policy function
    out         \* the result of that call

retryVars == <<pc, Policy, policy, callerReq, origBody, req, now, start, try, resp, err, sleep,
               cancelled, calls, waits, sent, closed, ret, exit>>

\* A direct call of a function: its arguments and its result.
callVars == <<arg, out>>

VARIABLES
    QPS,          \* t.QPS, a whole number of queries per second
    TimeAfter,    \* t.TimeAfter: "nil" (time.After) or "hooked" (a test's stub that fires at once)
    clock,        \* time.Now(), in nanoseconds
    mu,           \* t.mu: 0 when unlocked, else the caller that holds it
    lastRequest,  \* t.lastRequest (ZeroTime: the zero time.Time)
    tpc,          \* per caller, where Throttle.RoundTrip stands
    tnow,         \* per caller, now := time.Now()
    tsleep,       \* per caller, the local sleep
    tctx,         \* per caller, whether the request's context is cancelled
    tret,         \* per caller, what RoundTrip returned
    serial,       \* whether the callers are one loop, each call made as the previous returns
    slots,        \* the values written to lastRequest, in the order of the writes
    reads,        \* the values of lastRequest the callers computed their sleep from
    timers,       \* per caller, the duration handed to timeAfter (NoTimer: none)
    lockCount,    \* how many times t.mu.Lock() returned
    invokedAt     \* per caller, when t.Transport.RoundTrip was invoked (Never: not)

throttleVars == <<QPS, TimeAfter, clock, mu, lastRequest, tpc, tnow, tsleep, tctx, tret,
                  serial, slots, reads, timers, lockCount, invokedAt>>

\* One Capture, one request through it, and the body of its response.
VARIABLES
    capPc,      \* "idle", "returned": RoundTrip returned; "body": with a response
    capReq,     \* the request the caller handed to RoundTrip
    capSent,    \* the request handed to c.Transport: the caller's or its clone
    capRet,     \* what RoundTrip returned: [resp, err]
    C,          \* the Records sent on c.C, in order
    capBody,    \* captureBody.body: the bytes not read yet, and how it ends
    capContent, \* captureBody.content
    capErr,     \* captureBody.err
    capLog      \* what the caller did with the body: the error of each Read, "Close"

captureVars == <<capPc, capReq, capSent, capRet, C, capBody, capContent, capErr, capLog>>

\* One logBody: the body of a response returned by Log.RoundTrip.
VARIABLES
    includeResponseBody, \* logBody.includeResponseBody
    lbLevel,      \* logBody.level
    lbBody,       \* logBody.body: the bytes not read yet, how it ends, what Close gives
    lbContent,    \* logBody.content
    responseSize, \* logBody.responseSize
    lbErr,        \* logBody.err
    logged,       \* the records logBody handed to the logger, in order
    lbOps         \* what the caller did: the byte count of each Read, "Close"

logBodyVars == <<includeResponseBody, lbLevel, lbBody, lbContent, responseSize, lbErr,
                 logged, lbOps>>

vars == <<retryVars, callVars, throttleVars, captureVars, logBodyVars>>

\* What an action of one component leaves alone: the other components.
outsideRetry == <<throttleVars, captureVars, logBodyVars>>
outsideThrottle == <<retryVars, callVars, captureVars, logBodyVars>>
outsideCapture == <<retryVars, callVars, throttleVars, logBodyVars>>
outsideLogBody == <<retryVars, callVars, throttleVars, captureVars>>

-----------------------------------------------------------------------------
(* Bounds of the model. *)

\* The largest MaxTryCount a configured policy has.
MaxTry == 3
\* The longest request body, in bytes.
MaxBodyLen == 2
\* The latency of a slow transport call, in seconds.
SlowCall == 11
\* The largest try index handed to a direct call of ShouldRetry or Backoff.
MaxTryArg == 4
\* The number of concurrent callers of one Throttle.
NumCallers == 3
\* How far the clock of the Throttle runs, in ticks.
MaxTicks == 4

\* How many retries the model follows under a policy that sets no limit.
MaxAlwaysTry == 1

\* How many operations on the body of a captured response the model follows.
MaxBodyOps == 4

\* How many decorators a chain of transports has at most.
MaxChain == 3

-----------------------------------------------------------------------------
(* time.Duration: int64 nanoseconds. *)

\* time.Second, in nanoseconds: the base of the digits of a Duration.
Second == 1000000000

\* math.MaxInt64 = 9223372036854775807, as digits.
MaxInt64 == [gs |-> 9, s |-> 223372036, ns |-> 854775807]
\* 2^64 = 18446744073709551616, as digits.
TwoTo64 == [gs |-> 18, s |-> 446744073, ns |-> 709551616]

\* a <= b for two magnitudes.
MagLeq(a, b) ==
    \/ a.gs < b.gs
    \/ a.gs = b.gs /\ a.s < b.s
    \/ a.gs = b.gs /\ a.s = b.s /\ a.ns <= b.ns

\* a - b for two magnitudes, b <= a.
MagSub(a, b) ==
    LET b1 == IF a.ns < b.ns THEN 1 ELSE 0
        ns == a.ns + b1 * Second - b.ns
        b2 == IF a.s - b1 < b.s THEN 1 ELSE 0
        s  == a.s - b1 + b2 * Second - b.s
    IN  [gs |-> a.gs - b2 - b.gs, s |-> s, ns |-> ns]

Dur(neg, m) == [neg |-> neg, gs |-> m.gs, s |-> m.s, ns |-> m.ns]
Mag(d) == [gs |-> d.gs, s |-> d.s, ns |-> d.ns]

\* n seconds, n a small integer of either sign.
Seconds(n) ==
    IF n < 0 THEN [neg |-> TRUE, gs |-> 0, s |-> -n, ns |-> 0]
             ELSE [neg |-> FALSE, gs |-> 0, s |-> n, ns |-> 0]

ZeroDuration == Seconds(0)

\* d > 0.
Positive(d) == ~d.neg /\ (d.gs > 0 \/ d.s > 0 \/ d.ns > 0)

\* The int64 a mathematical magnitude m < 2^64 + 2^63 wraps to.
WrapInt64(m) ==
    IF MagLeq(m, MaxInt64) THEN Dur(FALSE, m)
    ELSE IF MagLeq(TwoTo64, m) THEN Dur(FALSE, MagSub(m, TwoTo64))
    ELSE Dur(TRUE, MagSub(TwoTo64, m))

\* time.Second * time.Duration(n) for an integer n >= 0 written [gs, s]
\* (gs * 10^9 + s): the product shifts n by one digit, and wraps as int64 does.
MulSecond(n) == WrapInt64([gs |-> n.gs, s |-> n.s, ns |-> 0])

\* How long a timer set to d takes to fire, in whole seconds of the clock:
\* time.After fires at once for d <= 0.
TimerSeconds(d) == IF d.neg THEN 0 ELSE d.gs * Second + d.s

-----------------------------------------------------------------------------
(* Errors and their classification. *)

\* An error value: its dynamic type, the type of the error a *url.Error wraps,
\* and the text Error() returns. NoError is nil.
NoError == [type |-> "nil", inner |-> "nil", msg |-> ""]

UrlError(inner, msg) == [type |-> "*url.Error", inner |-> inner, msg |-> msg]
PlainError(msg) == [type |-> "error", inner |-> "nil", msg |-> msg]

\* The texts of the errors of the model.
RedirectsMsg == "Get \"/again\": stopped after 10 redirects"
SchemeMsg == "Get \"foo://host\": unsupported protocol scheme \"foo\""
InvalidHeaderMsg == "Get \"http://host\": net/http: invalid header field value"
NotTrustedMsg == "Get \"https://host\": x509: certificate is not trusted"
CertVerifyMsg == "Get \"https://host\": tls: failed to verify certificate"
ResetMsg == "Get \"http://host\": read: connection reset by peer"
CanceledMsg == "context canceled"
ReadMsg == "read: unexpected EOF"
GetBodyMsg == "GetBody: cannot rewind"
\* A connection reset on a URL that spells the text of invalidHeaderErrorRe,
\* and one on a URL that spells the text of redirectsErrorRe.
ResetAtHeaderUrlMsg == "Get \"http://host/invalid header\": read: connection reset by peer"
ResetAtRedirectsUrlMsg ==
    "Get \"http://host/stopped after 10 redirects\": read: connection reset by peer"

\* Each regular expression, as the texts of the model it matches.
redirectsErrorRe == {RedirectsMsg}
schemeErrorRe == {SchemeMsg}
invalidHeaderErrorRe == {InvalidHeaderMsg, ResetAtHeaderUrlMsg}
notTrustedErrorRe == {NotTrustedMsg}

\* An error that is not a *url.Error but wraps one, as fmt.Errorf("%w") makes.
WrappedError(msg) == [type |-> "*fmt.wrapError", inner |-> "*url.Error", msg |-> msg]

\* isNotRetriableError that looks at the text of an error of any type.
isNotRetriableErrorAnyType(e) ==
    \/ e.inner = "*tls.CertificateVerificationError"
    \/ e.msg \in redirectsErrorRe
    \/ e.msg \in schemeErrorRe
    \/ e.msg \in invalidHeaderErrorRe
    \/ e.msg \in notTrustedErrorRe

isNotRetriableError(e) ==
    IF e.type = "*url.Error"
    THEN \/ e.inner = "*tls.CertificateVerificationError"
         \/ e.msg \in redirectsErrorRe
         \/ e.msg \in schemeErrorRe
         \/ e.msg \in invalidHeaderErrorRe
         \/ e.msg \in notTrustedErrorRe
    ELSE FALSE

-----------------------------------------------------------------------------
(* Responses and the Retry-After header. *)

\* The value of a Retry-After header: absent (""), text that is neither an
\* integer nor an RFC 1123 date, a decimal int64 +/-(gs * 10^9 + s), or an
\* RFC 1123 date naming second s of the clock.
NoHeader == [kind |-> "absent", neg |-> FALSE, gs |-> 0, s |-> 0]
GarbageHeader == [kind |-> "garbage", neg |-> FALSE, gs |-> 0, s |-> 0]
IntHeader(n) == [kind |-> "int", neg |-> n < 0, gs |-> 0, s |-> IF n < 0 THEN -n ELSE n]
BigIntHeader(gs, s) == [kind |-> "int", neg |-> FALSE, gs |-> gs, s |-> s]
DateHeader(t) == [kind |-> "date", neg |-> FALSE, gs |-> 0, s |-> t]

\* A nil *http.Response.
NilResp == [id |-> 0, StatusCode |-> 0, RetryAfter |-> NoHeader]

Response(id, code, h) == [id |-> id, StatusCode |-> code, RetryAfter |-> h]

parseRetryAfterHeader(header) ==
    IF header.kind = "int"
    THEN IF ~header.neg /\ (header.gs > 0 \/ header.s > 0)
         THEN [sleep |-> MulSecond(header), ok |-> TRUE]
         ELSE [sleep |-> ZeroDuration, ok |-> FALSE]
    ELSE IF header.kind = "date"
    THEN LET until == Seconds(header.s - now)
         IN  IF Positive(until)
             THEN [sleep |-> until, ok |-> TRUE]
             ELSE [sleep |-> ZeroDuration, ok |-> FALSE]
    ELSE [sleep |-> ZeroDuration, ok |-> FALSE]

-----------------------------------------------------------------------------
(* ExponentialBackoff. Exp is a float64; the model writes it as the fraction   *)
(* num/den with den a power of two, so that math.Pow is exact.                 *)

ExponentialBackoff(n, d, num, den) ==
    [MaxTryCount |-> n, MaxDuration |-> d, Exp |-> [num |-> num, den |-> den]]

DefaultRetryPolicy == ExponentialBackoff(3, 10, 2, 1)

\* A nil RetryPolicy: r.Policy left unset.
NilPolicy == [MaxTryCount |-> -1, MaxDuration |-> -1, Exp |-> [num |-> 0, den |-> 1]]

\* policy := r.Policy with no default: the unset policy is used as it is.
PolicyOrDefaultNone(p) == p

\* policy := r.Policy; if policy == nil { policy = &DefaultRetryPolicy }.
PolicyOrDefault(p) == IF p = NilPolicy THEN DefaultRetryPolicy ELSE p

RECURSIVE IntPow(_, _)
IntPow(b, n) == IF n = 0 THEN 1 ELSE b * IntPow(b, n - 1)

\* ShouldRetry with 503 missing from the list of retried codes.
ShouldRetryNo503(e, ctx, st, t, er, rsp) ==
    IF t >= e.MaxTryCount \/ now - st > e.MaxDuration \/ ctx \/ isNotRetriableError(er)
    THEN FALSE
    ELSE IF rsp = NilResp
    THEN FALSE
    ELSE LET code == rsp.StatusCode
         IN  code = 429 \/ code = 502 \/ code = 504 \/ code = 529

\* ShouldRetry without the non-standard 529.
ShouldRetryNo529(e, ctx, st, t, er, rsp) ==
    IF t >= e.MaxTryCount \/ now - st > e.MaxDuration \/ ctx \/ isNotRetriableError(er)
    THEN FALSE
    ELSE IF rsp = NilResp
    THEN FALSE
    ELSE LET code == rsp.StatusCode
         IN  code = 429 \/ code = 502 \/ code = 503 \/ code = 504

\* ShouldRetry that does not look at the context.
ShouldRetryNoCtx(e, ctx, st, t, er, rsp) ==
    IF t >= e.MaxTryCount \/ now - st > e.MaxDuration \/ isNotRetriableError(er)
    THEN FALSE
    ELSE IF rsp = NilResp
    THEN FALSE
    ELSE LET code == rsp.StatusCode
         IN  code = 429 \/ code = 502 \/ code = 503 \/ code = 504 \/ code = 529

\* ShouldRetry that allows one try too many: try > MaxTryCount.
ShouldRetryOffByOne(e, ctx, st, t, er, rsp) ==
    IF t > e.MaxTryCount \/ now - st > e.MaxDuration \/ ctx \/ isNotRetriableError(er)
    THEN FALSE
    ELSE IF rsp = NilResp
    THEN FALSE
    ELSE LET code == rsp.StatusCode
         IN  code = 429 \/ code = 502 \/ code = 503 \/ code = 504 \/ code = 529

\* ShouldRetry that retries any transport error that came without a response,
\* unclassified.
ShouldRetryOnError(e, ctx, st, t, er, rsp) ==
    IF t >= e.MaxTryCount \/ now - st > e.MaxDuration \/ ctx
    THEN FALSE
    ELSE IF rsp = NilResp
    THEN er # NoError
    ELSE LET code == rsp.StatusCode
         IN  code = 429 \/ code = 502 \/ code = 503 \/ code = 504 \/ code = 529

\* ShouldRetry that retries 429 and every 5xx.
ShouldRetryAny5xx(e, ctx, st, t, er, rsp) ==
    IF t >= e.MaxTryCount \/ now - st > e.MaxDuration \/ ctx \/ isNotRetriableError(er)
    THEN FALSE
    ELSE IF rsp = NilResp
    THEN FALSE
    ELSE LET code == rsp.StatusCode
         IN  code = 429 \/ code \in 500..599

\* ShouldRetry without the test of try against MaxTryCount.
ShouldRetryNoTryLimit(e, ctx, st, t, er, rsp) ==
    IF now - st > e.MaxDuration \/ ctx \/ isNotRetriableError(er)
    THEN FALSE
    ELSE IF rsp = NilResp
    THEN FALSE
    ELSE LET code == rsp.StatusCode
         IN  code = 429 \/ code = 502 \/ code = 503 \/ code = 504 \/ code = 529

ShouldRetry(e, ctx, st, t, er, rsp) ==
    IF t >= e.MaxTryCount \/ now - st > e.MaxDuration \/ ctx \/ isNotRetriableError(er)
    THEN FALSE
    ELSE IF rsp = NilResp
    THEN FALSE
    ELSE LET code == rsp.StatusCode
         IN  code = 429 \/ code = 502 \/ code = 503 \/ code = 504 \/ code = 529

\* time.Duration(math.Pow(e.Exp, float64(try))) * time.Second: the conversion
\* to an integer drops the fraction before the product scales it to seconds.
Backoff(e, st, t) ==
    LET whole == IntPow(e.Exp.num, t) \div IntPow(e.Exp.den, t)
    IN  MulSecond([gs |-> whole \div Second, s |-> whole % Second])

\* A RetryPolicy that is not an ExponentialBackoff, after PolicyCodes: it
\* retries up to Max times on the status codes of Codes and, with OnError, on
\* any error of the transport and on any attempt without a response; its
\* Backoff is the one of the policy it embeds.
CustomPolicy(inner, codes, onError, max) ==
    [RetryPolicy |-> inner, Codes |-> codes, OnError |-> onError, Max |-> max]

IsCustom(p) == "Codes" \in DOMAIN p

CustomShouldRetry(p, ctx, st, t, er, rsp) ==
    /\ t < p.Max
    /\ \/ rsp # NilResp /\ rsp.StatusCode \in p.Codes
       \/ p.OnError /\ (er # NoError \/ rsp = NilResp)

\* A RetryPolicy whose ShouldRetry returns true whatever it is given; its
\* Backoff is the one of the default policy.
AlwaysRetry == [RetryPolicy |-> DefaultRetryPolicy, Always |-> TRUE]

IsAlways(p) == "Always" \in DOMAIN p

\* A loop that stops after one retry whatever the policy says.
PolicyShouldRetryCapped(p, ctx, st, t, er, rsp) ==
    /\ t < 1
    /\ IF IsAlways(p) THEN TRUE
       ELSE IF IsCustom(p) THEN CustomShouldRetry(p, ctx, st, t, er, rsp)
       ELSE ShouldRetry(p, ctx, st, t, er, rsp)

\* policy.ShouldRetry(ctx, start, try, err, resp), whatever the policy is.
PolicyShouldRetry(p, ctx, st, t, er, rsp) ==
    IF IsAlways(p) THEN TRUE
    ELSE IF IsCustom(p) THEN CustomShouldRetry(p, ctx, st, t, er, rsp)
    ELSE ShouldRetry(p, ctx, st, t, er, rsp)

\* policy.Backoff(start, try), whatever the policy is.
PolicyBackoff(p, st, t) ==
    IF IsCustom(p) \/ IsAlways(p) THEN Backoff(p.RetryPolicy, st, t) ELSE Backoff(p, st, t)

-----------------------------------------------------------------------------
(* Requests and their bodies. *)

\* A body stream: nil when ~open; data are the bytes still unread; owner tells
\* whether the stream is the one the caller built or a copy made for Retry.
NoBody == [open |-> FALSE, data |-> <<>>, owner |-> "none"]
CallerBody(b) == [open |-> TRUE, data |-> b, owner |-> "caller"]
CopyBody(b) == [open |-> TRUE, data |-> b, owner |-> "copy"]

\* A request: Body, GetBody ("nil", "caller": the factory the caller set,
\* "buffer": the closure of cloneRequestWithBody over in), and in.
Request(body, getBody, in) == [Body |-> body, GetBody |-> getBody, in |-> in]

NoRequest == Request(NoBody, "nil", <<>>)

\* The request bodies of the model: n bytes, each byte its own position, so
\* that a body cut short or read from the wrong offset differs from the whole.
Bodies == {[i \in 1..n |-> i] : n \in 0..MaxBodyLen}

\* cloneRequestWithBody that leaves req2.Body as io.ReadAll left it: drained.
cloneRequestWithBodyDrained(r, readOk) ==
    IF r.Body.open /\ r.GetBody = "nil"
    THEN IF readOk
         THEN [req |-> Request(CallerBody(<<>>), "buffer", r.Body.data),
               err |-> NoError,
               caller |-> [r EXCEPT !.Body.data = <<>>]]
         ELSE [req |-> NoRequest, err |-> PlainError(ReadMsg),
               caller |-> [r EXCEPT !.Body.data = <<>>]]
    ELSE [req |-> Request(r.Body, r.GetBody, <<>>), err |-> NoError, caller |-> r]

\* cloneRequestWithBody(req); readOk tells whether io.ReadAll(req2.Body)
\* succeeds. Gives the clone, the error, and the caller's stream afterwards.
cloneRequestWithBody(r, readOk) ==
    IF r.Body.open /\ r.GetBody = "nil"
    THEN IF readOk
         THEN [req |-> Request(CopyBody(r.Body.data), "buffer", r.Body.data),
               err |-> NoError,
               caller |-> [r EXCEPT !.Body.data = <<>>]]
         ELSE [req |-> NoRequest, err |-> PlainError(ReadMsg),
               caller |-> [r EXCEPT !.Body.data = <<>>]]
    ELSE [req |-> Request(r.Body, r.GetBody, <<>>), err |-> NoError, caller |-> r]

\* A GetBody whose buffered copies are one stream: what a previous attempt
\* read is gone from the next.
GetBodyShared(r, ok) ==
    IF r.GetBody = "buffer" THEN [body |-> r.Body, err |-> NoError]
    ELSE IF ok THEN [body |-> CopyBody(origBody), err |-> NoError]
    ELSE [body |-> NoBody, err |-> PlainError(GetBodyMsg)]

\* req.GetBody(); ok tells whether the caller's factory succeeds.
GetBody(r, ok) ==
    IF r.GetBody = "buffer" THEN [body |-> CopyBody(r.in), err |-> NoError]
    ELSE IF ok THEN [body |-> CopyBody(origBody), err |-> NoError]
    ELSE [body |-> NoBody, err |-> PlainError(GetBodyMsg)]

\* The stream after the transport read its first k bytes.
ReadFrom(body, k) == [body EXCEPT !.data = SubSeq(body.data, k + 1, Len(body.data))]

-----------------------------------------------------------------------------
(* The transport: what one call of r.Transport.RoundTrip may return. *)

StatusCodes == {200, 429, 500, 503}

RetryAfterHeaders ==
    {NoHeader, GarbageHeader, IntHeader(-1), IntHeader(0), IntHeader(1),
     IntHeader(SlowCall + 1), BigIntHeader(9, 223372037),
     DateHeader(0), DateHeader(SlowCall + 4)}

TransportErrors ==
    {UrlError("error", RedirectsMsg), UrlError("error", SchemeMsg),
     UrlError("error", InvalidHeaderMsg), UrlError("error", NotTrustedMsg),
     UrlError("*tls.CertificateVerificationError", CertVerifyMsg),
     UrlError("error", ResetMsg), PlainError(SchemeMsg)}

Latencies == {0, SlowCall}

\* The errors a transport may return along with a response.
PartialErrors == {UrlError("error", SchemeMsg), UrlError("error", ResetMsg)}

\* The pairs (response, error) call number id may return: a response, an
\* error, or both; context.Canceled only once the context is cancelled. Under
\* a policy of the caller's own, also neither.
Outcomes(id) ==
    LET resps == {Response(id, c, h) : c \in StatusCodes, h \in RetryAfterHeaders}
        errs  == TransportErrors \cup
                 (IF cancelled THEN {PlainError(CanceledMsg)} ELSE {})
    IN  {[resp |-> r, err |-> NoError] : r \in resps}
        \cup {[resp |-> NilResp, err |-> e] : e \in errs}
        \cup {[resp |-> Response(id, c, NoHeader), err |-> e] :
                 c \in StatusCodes, e \in PartialErrors}
        \cup (IF IsCustom(policy) \/ IsAlways(policy)
              THEN {[resp |-> NilResp, err |-> NoError]} ELSE {})

-----------------------------------------------------------------------------
(* Retry.RoundTrip. *)

Policies ==
    {ExponentialBackoff(n, 10, x[1], x[2]) : n \in 0..MaxTry, x \in {<<2, 1>>, <<3, 2>>}}

\* Policies of the caller's own.
CustomPolicies ==
    {CustomPolicy(DefaultRetryPolicy, c, e, n) :
        c \in {{}, {200, 500}}, e \in BOOLEAN, n \in 0..MaxTry}

Requests ==
    {Request(NoBody, "nil", <<>>)}
    \cup {Request(CallerBody(b), g, <<>>) : b \in Bodies, g \in {"nil", "caller"}}

\* A request without a body, and one-byte requests with and without GetBody.
ShortRequests ==
    {Request(NoBody, "nil", <<>>)}
    \cup {Request(CallerBody(<<1>>), g, <<>>) : g \in {"nil", "caller"}}

NoReturn == [resp |-> NilResp, err |-> NoError]

\* The state before RoundTrip is called, for a policy of ps, a request of rs
\* and a clock reading of ts.
InitRetry(ps, rs, ts) ==
    /\ pc = "idle"
    /\ Policy \in ps
    /\ policy = Policy
    /\ callerReq \in rs
    /\ origBody = callerReq.Body.data
    /\ req = NoRequest
    /\ now \in ts
    /\ start = 0
    /\ try = 0
    /\ resp = NilResp
    /\ err = NoError
    /\ sleep = ZeroDuration
    /\ cancelled = FALSE
    /\ calls = 0
    /\ waits = 0
    /\ sent = <<>>
    /\ closed = {}
    /\ ret = NoReturn
    /\ exit = "none"

\* A sleep cut to what is left of MaxDuration.
SleepForRemaining(e, st, t, rsp) ==
    LET d == IF rsp # NilResp
             THEN LET p == parseRetryAfterHeader(rsp.RetryAfter)
                  IN  IF p.ok THEN p.sleep ELSE PolicyBackoff(e, st, t)
             ELSE PolicyBackoff(e, st, t)
        left == Seconds(e.MaxDuration - (now - st))
    IN  IF d.neg \/ MagLeq(Mag(d), Mag(left)) THEN d ELSE left

\* The sleep of one iteration: Retry-After when the response has a usable
\* one, the policy's backoff otherwise.
SleepFor(e, st, t, rsp) ==
    IF rsp # NilResp
    THEN LET p == parseRetryAfterHeader(rsp.RetryAfter)
         IN  IF p.ok THEN p.sleep ELSE PolicyBackoff(e, st, t)
    ELSE PolicyBackoff(e, st, t)

\* return nil, err: cloneRequestWithBody failed.
CloneFailReturn(er) == [resp |-> NilResp, err |-> er]
\* return resp, err: the error of the previous attempt.
GetBodyFailReturnPrevious(rsp, er, er2) == [resp |-> rsp, err |-> er]
\* return nil, err2: the response of the previous attempt is let go.
GetBodyFailReturnNil(rsp, er, er2) == [resp |-> NilResp, err |-> er2]
\* return resp, err2: req.GetBody failed.
GetBodyFailReturn(rsp, er, er2) == [resp |-> rsp, err |-> er2]
\* case <-ctx.Done(): return nil, ctx.Err().
CtxDoneReturnNil(rsp, er) == [resp |-> NilResp, err |-> PlainError(CanceledMsg)]
\* case <-ctx.Done(): return resp, ctx.Err().
CtxDoneReturnCtxErr(rsp, er) == [resp |-> rsp, err |-> PlainError(CanceledMsg)]
\* case <-ctx.Done(): return resp, err.
CtxDoneReturn(rsp, er) == [resp |-> rsp, err |-> er]
\* return resp, err: the loop ended.
LoopEndReturn(rsp, er) == [resp |-> rsp, err |-> er]

\* A loop that drains and closes resp without testing it for nil.
DrainAndCloseUnguarded(ids, rsp) == ids \cup {rsp.id}

\* A loop that leaves the previous response open.
DrainAndCloseSkipped(ids, rsp) == ids

\* io.Copy(io.Discard, resp.Body); resp.Body.Close(), when resp != nil.
DrainAndClose(ids, rsp) == IF rsp # NilResp THEN ids \cup {rsp.id} ELSE ids

\* start := time.Now(); cloneRequestWithBody; the first r.Transport.RoundTrip(req).
RoundTripStart ==
    /\ pc = "idle"
    /\ \E readOk \in (IF callerReq.Body.open /\ callerReq.GetBody = "nil"
                      THEN BOOLEAN ELSE {TRUE}) :
          LET c == cloneRequestWithBody(callerReq, readOk)
          IN  /\ policy' = PolicyOrDefault(Policy)
              /\ callerReq' = c.caller
              /\ start' = now
              /\ IF c.err # NoError
                 THEN /\ ret' = CloneFailReturn(c.err)
                      /\ exit' = "clone"
                      /\ pc' = "done"
                      /\ UNCHANGED <<req, calls, sent>>
                 ELSE /\ req' = c.req
                      /\ calls' = calls + 1
                      /\ sent' = c.req.Body.data
                      /\ pc' = "transport"
                      /\ UNCHANGED <<ret, exit>>
    /\ UNCHANGED <<Policy, origBody, now, try, resp, err, sleep, cancelled, waits,
                   closed, arg, out, outsideRetry>>

\* r.Transport.RoundTrip(req) returns: after some latency, having read some of
\* the request body, with some response and error.
TransportReturn ==
    /\ pc = "transport"
    /\ \E o \in Outcomes(calls), lat \in Latencies, k \in 0..Len(req.Body.data) :
          /\ resp' = o.resp
          /\ err' = o.err
          /\ now' = now + lat
          /\ req' = [req EXCEPT !.Body = ReadFrom(req.Body, k)]
          /\ callerReq' = IF req.Body.owner = "caller"
                          THEN [callerReq EXCEPT !.Body = ReadFrom(callerReq.Body, k)]
                          ELSE callerReq
    /\ pc' = "loop"
    /\ UNCHANGED <<Policy, policy, origBody, start, try, sleep, cancelled, calls, waits,
                   sent, closed, ret, exit, arg, out, outsideRetry>>

\* The loop condition is false: return resp, err.
LoopEnd ==
    /\ pc = "loop"
    /\ ~PolicyShouldRetry(policy, cancelled, start, try, err, resp)
    /\ ret' = LoopEndReturn(resp, err)
    /\ exit' = "policy"
    /\ pc' = "done"
    /\ UNCHANGED <<Policy, policy, callerReq, origBody, req, now, start, try, resp, err,
                   sleep, cancelled, calls, waits, sent, closed, arg, out, outsideRetry>>

\* The loop condition is true: renew req.Body, compute sleep, enter the select.
LoopBody ==
    /\ pc = "loop"
    /\ PolicyShouldRetry(policy, cancelled, start, try, err, resp)
    /\ \E ok \in (IF req.GetBody = "caller" THEN BOOLEAN ELSE {TRUE}) :
          LET g == GetBody(req, ok)
          IN  IF req.GetBody # "nil" /\ g.err # NoError
              THEN /\ ret' = GetBodyFailReturn(resp, err, g.err)
                   /\ exit' = "getbody"
                   /\ pc' = "done"
                   /\ UNCHANGED <<req, sleep>>
              ELSE /\ req' = IF req.GetBody # "nil"
                             THEN [req EXCEPT !.Body = g.body] ELSE req
                   /\ sleep' = SleepFor(policy, start, try, resp)
                   /\ pc' = "select"
                   /\ UNCHANGED <<ret, exit>>
    /\ UNCHANGED <<Policy, policy, callerReq, origBody, now, start, try, resp, err,
                   cancelled, calls, waits, sent, closed, arg, out, outsideRetry>>

\* case <-ctx.Done(): return the previous try's response.
SelectCtxDone ==
    /\ pc = "select"
    /\ cancelled
    /\ ret' = CtxDoneReturn(resp, err)
    /\ exit' = "ctx"
    /\ pc' = "done"
    /\ UNCHANGED <<Policy, policy, callerReq, origBody, req, now, start, try, resp, err,
                   sleep, cancelled, calls, waits, sent, closed, arg, out, outsideRetry>>

\* case <-timeAfter(sleep): the timer fires once sleep has passed; drain and
\* close the previous response, try++, call the transport again.
SelectTimeAfter ==
    /\ pc = "select"
    /\ IsAlways(policy) => try < MaxAlwaysTry
    /\ now' = now + TimerSeconds(sleep)
    /\ waits' = waits + 1
    /\ closed' = DrainAndClose(closed, resp)
    /\ try' = try + 1
    /\ calls' = calls + 1
    /\ sent' = req.Body.data
    /\ pc' = "transport"
    /\ UNCHANGED <<Policy, policy, callerReq, origBody, req, start, resp, err, sleep,
                   cancelled, ret, exit, arg, out, outsideRetry>>

\* The caller, or a deadline, cancels the request's context.
Cancel ==
    /\ pc \in {"idle", "transport", "loop", "select"}
    /\ ~cancelled
    /\ cancelled' = TRUE
    /\ UNCHANGED <<pc, Policy, policy, callerReq, origBody, req, now, start, try, resp, err,
                   sleep, calls, waits, sent, closed, ret, exit, arg, out, outsideRetry>>

NextRetry ==
    \/ RoundTripStart
    \/ TransportReturn
    \/ LoopEnd
    \/ LoopBody
    \/ SelectCtxDone
    \/ SelectTimeAfter
    \/ Cancel

NoCall == [fn |-> "none"]

-----------------------------------------------------------------------------
(* Direct calls of the policy's functions, on arguments drawn at the start. *)

\* Every status code a response may carry.
AllStatusCodes == 100..599

PolicyErrors ==
    {NoError, UrlError("error", SchemeMsg), UrlError("error", ResetMsg),
     PlainError(SchemeMsg)}

ShouldRetryArgs ==
    [fn : {"ShouldRetry"}, ctx : BOOLEAN, try : 0..MaxTryArg, err : PolicyErrors,
     resp : {NilResp} \cup {Response(1, c, NoHeader) : c \in AllStatusCodes}]

BackoffArgs ==
    [fn : {"Backoff"}, ctx : {FALSE}, try : 0..MaxTryArg, err : {NoError},
     resp : {NilResp}]

\* The clock readings of a direct call: at start, MaxDuration later, and a
\* second after that.
PolicyClock == {0, 10, 11}

\* e.ShouldRetry(ctx, start, try, err, resp).
CallShouldRetry ==
    /\ arg.fn = "ShouldRetry"
    /\ out = NoCall
    /\ out' = [fn |-> "ShouldRetry",
               value |-> ShouldRetry(policy, arg.ctx, start, arg.try, arg.err, arg.resp)]
    /\ UNCHANGED <<retryVars, arg, outsideRetry>>

\* e.Backoff(start, try).
CallBackoff ==
    /\ arg.fn = "Backoff"
    /\ out = NoCall
    /\ out' = [fn |-> "Backoff", value |-> Backoff(policy, start, arg.try)]
    /\ UNCHANGED <<retryVars, arg, outsideRetry>>

NextPolicy ==
    \/ CallShouldRetry
    \/ CallBackoff

-----------------------------------------------------------------------------
(* Throttle.RoundTrip, called by NumCallers goroutines on one Throttle. *)

Callers == 1..NumCallers

\* The step of the clock: 50 ms, in nanoseconds.
Tick == Second \div 20

\* The zero time.Time, the absence of a timer, and the time of what has not
\* happened.
ZeroTime == -1
NoTimer == -1
Never == -1

\* The values of t.QPS: negative, zero, 10 (a window of two ticks) and 20 (a
\* window of one tick).
QPSValues == {-1, 0, 10, 20}

\* window := time.Duration(float64(time.Second) / t.QPS), for a whole q > 0.
Window(q) == Second \div q

\* A sleep computed without the time the last slot lies ahead: the whole
\* window, whenever the last request is less than a window old.
SleepForSlotFlat(last, n, window) ==
    IF last # ZeroTime /\ n - last < window THEN window ELSE 0

\* A sleep that counts only a lastRequest that is past: a caller that finds
\* the slot of a waiting caller ahead of now goes through at once.
SleepForSlotPastOnly(last, n, window) ==
    IF last # ZeroTime /\ 0 <= n - last /\ n - last < window THEN window - (n - last) ELSE 0

\* A sleep computed without asking whether lastRequest is the zero time.
SleepForSlotNoZeroTest(last, n, window) ==
    IF n - last < window THEN window - (n - last) ELSE 0

\* The sleep of lines 40-44: the time from now to a window after lastRequest,
\* or none.
SleepForSlot(last, n, window) ==
    IF last # ZeroTime /\ n - last < window THEN window - (n - last) ELSE 0

\* A mutex that lets everyone in.
MutexNone(m) == TRUE

\* t.mu.Lock() returns only when the mutex is free.
MutexFree(m) == m = 0

\* A Throttle that takes the lock whatever QPS is.
ThrottlingDisabledNever(q) == FALSE

\* if t.QPS <= 0: no throttling.
ThrottlingDisabled(q) == q <= 0

\* What RoundTrip has returned before it returns.
ThrottleNoReturn == [resp |-> "none", err |-> "none"]

\* The result of t.Transport.RoundTrip(req), whatever it is.
ThrottleTransportReturn == [resp |-> "transport's", err |-> "transport's"]

\* case <-ctx.Done() that goes on to the transport.
ThrottleCtxReturnForwarded == ThrottleTransportReturn

\* return nil, ctx.Err().
ThrottleCtxReturn == [resp |-> "nil", err |-> "ctx.Err()"]

\* A fresh Throttle of one of the given QPS and TimeAfter, no call made yet.
InitThrottle(qs, hooks, modes) ==
    /\ QPS \in qs
    /\ TimeAfter \in hooks
    /\ serial \in modes
    /\ clock = 0
    /\ mu = 0
    /\ lastRequest = ZeroTime
    /\ tpc = [g \in Callers |-> "idle"]
    /\ tnow = [g \in Callers |-> 0]
    /\ tsleep = [g \in Callers |-> 0]
    /\ tctx = [g \in Callers |-> FALSE]
    /\ tret = [g \in Callers |-> ThrottleNoReturn]
    /\ slots = <<>>
    /\ reads = <<>>
    /\ timers = [g \in Callers |-> NoTimer]
    /\ lockCount = 0
    /\ invokedAt = [g \in Callers |-> Never]

\* The callers are numbered in the order in which they get past the first
\* lines of RoundTrip; in a loop, one calls when the previous has returned.
MayEnter(g) ==
    /\ tpc[g] = "idle"
    /\ \A h \in Callers : h < g => tpc[h] # "idle"
    /\ serial => \A h \in Callers : h < g => tpc[h] = "done"

\* With QPS <= 0: return t.Transport.RoundTrip(req), at once.
ThrottlePassThrough(g) ==
    /\ MayEnter(g)
    /\ ThrottlingDisabled(QPS)
    /\ tpc' = [tpc EXCEPT ![g] = "transport"]
    /\ invokedAt' = [invokedAt EXCEPT ![g] = clock]
    /\ UNCHANGED <<QPS, TimeAfter, clock, mu, lastRequest, tnow, tsleep, tctx, tret,
                   serial, slots, reads, timers, lockCount, outsideThrottle>>

\* t.mu.Lock() returns; now := time.Now(); sleep is computed from lastRequest.
ThrottleLock(g) ==
    /\ MayEnter(g)
    /\ ~ThrottlingDisabled(QPS)
    /\ MutexFree(mu)
    /\ mu' = g
    /\ lockCount' = lockCount + 1
    /\ tnow' = [tnow EXCEPT ![g] = clock]
    /\ reads' = Append(reads, lastRequest)
    /\ tsleep' = [tsleep EXCEPT ![g] = SleepForSlot(lastRequest, clock, Window(QPS))]
    /\ tpc' = [tpc EXCEPT ![g] = "locked"]
    /\ UNCHANGED <<QPS, TimeAfter, clock, lastRequest, tctx, tret, serial, slots, timers,
                   invokedAt, outsideThrottle>>

\* A reservation that keeps the lock through the wait: t.mu.Unlock() only on
\* the path without a sleep.
ThrottleReserveKeepsLock(g) ==
    /\ tpc[g] = "locked"
    /\ lastRequest' = tnow[g] + tsleep[g]
    /\ slots' = Append(slots, tnow[g] + tsleep[g])
    /\ IF tsleep[g] > 0
       THEN /\ timers' = [timers EXCEPT ![g] = tsleep[g]]
            /\ tpc' = [tpc EXCEPT ![g] = "select"]
            /\ UNCHANGED <<invokedAt, mu>>
       ELSE /\ tpc' = [tpc EXCEPT ![g] = "transport"]
            /\ invokedAt' = [invokedAt EXCEPT ![g] = clock]
            /\ mu' = 0
            /\ UNCHANGED timers
    /\ UNCHANGED <<QPS, TimeAfter, clock, tnow, tsleep, tctx, tret, serial, reads,
                   lockCount, outsideThrottle>>

\* t.lastRequest = now.Add(sleep); t.mu.Unlock(); then, with sleep > 0, the
\* timer is set and the select entered; without, the transport is called.
ThrottleReserve(g) ==
    /\ tpc[g] = "locked"
    /\ lastRequest' = tnow[g] + tsleep[g]
    /\ slots' = Append(slots, tnow[g] + tsleep[g])
    /\ mu' = 0
    /\ IF tsleep[g] > 0
       THEN /\ timers' = [timers EXCEPT ![g] = tsleep[g]]
            /\ tpc' = [tpc EXCEPT ![g] = "select"]
            /\ UNCHANGED invokedAt
       ELSE /\ tpc' = [tpc EXCEPT ![g] = "transport"]
            /\ invokedAt' = [invokedAt EXCEPT ![g] = clock]
            /\ UNCHANGED timers
    /\ UNCHANGED <<QPS, TimeAfter, clock, tnow, tsleep, tctx, tret, serial, reads,
                   lockCount, outsideThrottle>>

\* case <-timeAfter(sleep): time.After fires no earlier than asked, a hooked
\* TimeAfter whenever it likes; the transport is called.
ThrottleTimeAfter(g) ==
    /\ tpc[g] = "select"
    /\ TimeAfter = "hooked" \/ clock >= tnow[g] + timers[g]
    /\ tpc' = [tpc EXCEPT ![g] = "transport"]
    /\ invokedAt' = [invokedAt EXCEPT ![g] = clock]
    /\ UNCHANGED <<QPS, TimeAfter, clock, mu, lastRequest, tnow, tsleep, tctx, tret,
                   serial, slots, reads, timers, lockCount, outsideThrottle>>

\* A ctx.Done() case that gives the slot back when nobody has reserved after
\* it: lastRequest goes back by a window.
ThrottleCtxDoneRollsBack(g) ==
    /\ tpc[g] = "select"
    /\ tctx[g]
    /\ tret' = [tret EXCEPT ![g] = ThrottleCtxReturn]
    /\ tpc' = [tpc EXCEPT ![g] = "done"]
    /\ lastRequest' = IF lastRequest = tnow[g] + tsleep[g]
                      THEN lastRequest - Window(QPS) ELSE lastRequest
    /\ UNCHANGED <<QPS, TimeAfter, clock, mu, tnow, tsleep, tctx,
                   serial, slots, reads, timers, lockCount, invokedAt, outsideThrottle>>

\* case <-ctx.Done(): return nil, ctx.Err().
ThrottleCtxDone(g) ==
    /\ tpc[g] = "select"
    /\ tctx[g]
    /\ tret' = [tret EXCEPT ![g] = ThrottleCtxReturn]
    /\ tpc' = [tpc EXCEPT ![g] = "done"]
    /\ UNCHANGED <<QPS, TimeAfter, clock, mu, lastRequest, tnow, tsleep, tctx,
                   serial, slots, reads, timers, lockCount, invokedAt, outsideThrottle>>

\* t.Transport.RoundTrip(req) returns, and RoundTrip with it.
ThrottleTransportDone(g) ==
    /\ tpc[g] = "transport"
    /\ tret' = [tret EXCEPT ![g] = ThrottleTransportReturn]
    /\ tpc' = [tpc EXCEPT ![g] = "done"]
    /\ UNCHANGED <<QPS, TimeAfter, clock, mu, lastRequest, tnow, tsleep, tctx,
                   serial, slots, reads, timers, lockCount, invokedAt, outsideThrottle>>

\* The context of g's request is cancelled while g is in the select.
ThrottleCancel(g) ==
    /\ tpc[g] = "select"
    /\ ~tctx[g]
    /\ tctx' = [tctx EXCEPT ![g] = TRUE]
    /\ UNCHANGED <<QPS, TimeAfter, clock, mu, lastRequest, tpc, tnow, tsleep, tret,
                   serial, slots, reads, timers, lockCount, invokedAt, outsideThrottle>>

\* Time passes, a tick at a time: none in the critical section, and in a loop
\* of calls none between a return and the next call.
ThrottleTick ==
    /\ clock < MaxTicks * Tick
    /\ mu = 0
    /\ serial => \E g \in Callers : tpc[g] \in {"select", "transport"}
    /\ clock' = clock + Tick
    /\ UNCHANGED <<QPS, TimeAfter, mu, lastRequest, tpc, tnow, tsleep, tctx, tret,
                   serial, slots, reads, timers, lockCount, invokedAt, outsideThrottle>>

NextThrottle ==
    \/ \E g \in Callers : ThrottlePassThrough(g)
    \/ \E g \in Callers : ThrottleLock(g)
    \/ \E g \in Callers : ThrottleReserve(g)
    \/ \E g \in Callers : ThrottleTimeAfter(g)
    \/ \E g \in Callers : ThrottleCtxDone(g)
    \/ \E g \in Callers : ThrottleTransportDone(g)
    \/ \E g \in Callers : ThrottleCancel(g)
    \/ ThrottleTick

-----------------------------------------------------------------------------
(* http.Header and Header.RoundTrip. A header map is a function from the keys *)
(* it holds, as they are spelled in the map, to the sequence of their values.  *)

\* textproto.CanonicalMIMEHeaderKey, on the keys of the model.
CanonicalMIMEHeaderKey(k) ==
    CASE k = "test-a" -> "Test-A"
      [] k = "X-Request-ID" -> "X-Request-Id"
      [] k = "x-request-id" -> "X-Request-Id"
      [] OTHER -> k

\* The header maps whose keys are among keys and whose values are among vals.
HeaderMaps(keys, vals) == UNION {[S -> vals] : S \in SUBSET keys}

\* h.Del(k).
HeaderDel(h, k) ==
    LET c == CanonicalMIMEHeaderKey(k)
    IN  [x \in DOMAIN h \ {c} |-> h[x]]

\* h.Set(k, v) that appends as h.Add does.
HeaderSetAppends(h, k, v) ==
    LET c == CanonicalMIMEHeaderKey(k)
    IN  [x \in DOMAIN h \cup {c} |->
            IF x # c THEN h[x]
            ELSE IF c \in DOMAIN h THEN Append(h[c], v) ELSE <<v>>]

\* h.Set(k, v).
HeaderSet(h, k, v) ==
    LET c == CanonicalMIMEHeaderKey(k)
    IN  [x \in DOMAIN h \cup {c} |-> IF x = c THEN <<v>> ELSE h[x]]

\* h.Add(k, v).
HeaderAdd(h, k, v) ==
    LET c == CanonicalMIMEHeaderKey(k)
    IN  [x \in DOMAIN h \cup {c} |->
            IF x # c THEN h[x]
            ELSE IF c \in DOMAIN h THEN Append(h[c], v) ELSE <<v>>]

\* h.Get(k): the first value of the canonical key, "" when there is none.
HeaderGet(h, k) ==
    LET c == CanonicalMIMEHeaderKey(k)
    IN  IF c \in DOMAIN h /\ Len(h[c]) > 0 THEN h[c][1] ELSE ""

\* for _, vv := range v { req.Header.Add(k, vv) }.
RECURSIVE HeaderAddAll(_, _, _)
HeaderAddAll(h, k, v) ==
    IF v = <<>> THEN h ELSE HeaderAddAll(HeaderAdd(h, k, Head(v)), k, Tail(v))

\* switch len(v): Del, Set or Add.
HeaderApply(h, k, v) ==
    IF Len(v) = 0 THEN HeaderDel(h, k)
    ELSE IF Len(v) = 1 THEN HeaderSet(h, k, v[1])
    ELSE HeaderAddAll(h, k, v)

\* for k, v := range h.Header, the keys coming in the given order.
RECURSIVE HeaderRange(_, _, _)
HeaderRange(h, cfg, order) ==
    IF order = <<>> THEN h
    ELSE HeaderRange(HeaderApply(h, Head(order), cfg[Head(order)]), cfg, Tail(order))

\* The orders in which range may visit the keys of a map.
RangeOrders(S) ==
    {o \in [1..Cardinality(S) -> S] : \A i, j \in 1..Cardinality(S) : i # j => o[i] # o[j]}

\* The keys of the configured and of the request's headers: three names, one
\* of them also in a spelling that is not canonical.
HeaderKeys == {"Test-A", "test-a", "Test-B", "Test-C"}

\* The values of a configured key: none, one, several.
ConfiguredValues == {<<>>, <<"v1">>, <<"v1", "v2">>}

\* The values of a key of the request.
RequestValues == {<<"old">>, <<"old", "older">>}

HeaderArgs ==
    [fn : {"Header.RoundTrip"},
     Header : HeaderMaps(HeaderKeys, ConfiguredValues),
     req : HeaderMaps(HeaderKeys, RequestValues)]

\* Header.RoundTrip(req): the headers of the request handed to h.Transport.
CallHeaderRoundTrip ==
    /\ arg.fn = "Header.RoundTrip"
    /\ out = NoCall
    /\ \E order \in RangeOrders(DOMAIN arg.Header) :
          out' = [fn |-> "Header.RoundTrip",
                  value |-> HeaderRange(arg.req, arg.Header, order)]
    /\ UNCHANGED <<retryVars, arg, outsideRetry>>

NextHeader == CallHeaderRoundTrip

-----------------------------------------------------------------------------
(* RequestID.RoundTrip and Log.RoundTrip.                                      *)

\* errors.New("roundtrippers.Log requires roundtrippers.RequestID").
LogRequiresMsg == "roundtrippers.Log requires roundtrippers.RequestID"

\* What the transport wrapped by Log gives back: a response and no error, or
\* no response and an error. Body names the reader the response holds.
LogNilResp == [StatusCode |-> 0, Body |-> "nil"]

LogTransportOutcomes ==
    {[resp |-> [StatusCode |-> 200, Body |-> "body"], err |-> NoError],
     [resp |-> [StatusCode |-> 503, Body |-> "body"], err |-> NoError],
     [resp |-> LogNilResp, err |-> PlainError("dial")]}

\* Log.RoundTrip that calls the transport whatever the request carries.
LogRoundTripUnchecked(h, t) ==
    [resp |-> IF t.err = NoError THEN [t.resp EXCEPT !.Body = "logBody"] ELSE t.resp,
     err |-> t.err,
     calls |-> 1,
     id |-> HeaderGet(h, "X-Request-ID")]

\* Log.RoundTrip on a request of headers h, over a transport that answers t:
\* what it returns, how many times it called the transport, and the id the
\* transport saw.
LogRoundTrip(h, t) ==
    LET rid == HeaderGet(h, "X-Request-ID")
    IN  IF rid = ""
        THEN [resp |-> LogNilResp, err |-> PlainError(LogRequiresMsg), calls |-> 0, id |-> ""]
        ELSE [resp |-> IF t.err = NoError THEN [t.resp EXCEPT !.Body = "logBody"] ELSE t.resp,
              err |-> t.err,
              calls |-> 1,
              id |-> rid]

\* The values genID gives: the base64 of 12 bytes, never empty.
GenIDs == {"id1", "id2"}

\* RequestID.RoundTrip over Log: the clone carries a fresh id.
RequestIDRoundTrip(h, id, t) == LogRoundTrip(HeaderSet(h, "X-Request-ID", id), t)

\* The spellings of the header in a request's map, and another header.
LogHeaderKeys == {"X-Request-Id", "X-Request-ID", "Test-A"}

\* The values a caller may have put there.
LogHeaderValues == {<<>>, <<"">>, <<"mine">>, <<"", "mine">>}

LogArgs ==
    [fn : {"Log.RoundTrip", "RequestID.RoundTrip"},
     req : HeaderMaps(LogHeaderKeys, LogHeaderValues),
     transport : LogTransportOutcomes]

\* A request sent through Log alone.
CallLogRoundTrip ==
    /\ arg.fn = "Log.RoundTrip"
    /\ out = NoCall
    /\ out' = [fn |-> "Log.RoundTrip", value |-> LogRoundTrip(arg.req, arg.transport)]
    /\ UNCHANGED <<retryVars, arg, outsideRetry>>

\* A request sent through RequestID wrapping Log.
CallRequestIDRoundTrip ==
    /\ arg.fn = "RequestID.RoundTrip"
    /\ out = NoCall
    /\ \E id \in GenIDs :
          out' = [fn |-> "RequestID.RoundTrip",
                  value |-> RequestIDRoundTrip(arg.req, id, arg.transport)]
    /\ UNCHANGED <<retryVars, arg, outsideRetry>>

NextLog == CallLogRoundTrip \/ CallRequestIDRoundTrip

-----------------------------------------------------------------------------
(* Capture.RoundTrip and captureBody. The channel c.C is taken to have room:   *)
(* a send never blocks.                                                        *)

\* The errors a Read of a response body ends with.
EOFMsg == "EOF"
UnexpectedEOFMsg == "unexpected EOF"
ClosedMsg == "http: read on closed response body"

\* A response as Capture sees it: whether there is one, its status, its body.
CaptureNilResp == [present |-> FALSE, StatusCode |-> 0, Body |-> "nil"]
CaptureResp(code, body) == [present |-> TRUE, StatusCode |-> code, Body |-> body]

\* Record{Request, Response, Err}.
Record(r, rsp, e) == [Request |-> r, Response |-> rsp, Err |-> e]

\* A body nobody reads from.
NoStream == [data |-> <<>>, end |-> EOFMsg, closed |-> FALSE]

\* What the wrapped transport gives back: a response whose body holds some
\* bytes and ends well or short, or no response and an error.
CaptureTransportOutcomes ==
    {[resp |-> CaptureResp(200, "body"), err |-> NoError,
      stream |-> [data |-> b, end |-> e, closed |-> FALSE]] :
        b \in Bodies, e \in {EOFMsg, UnexpectedEOFMsg}}
    \cup {[resp |-> CaptureNilResp, err |-> PlainError("dial"), stream |-> NoStream]}

\* The state before Capture.RoundTrip is called on a request of rs.
InitCapture(rs) ==
    /\ capPc = "idle"
    /\ capReq \in rs
    /\ capSent = NoRequest
    /\ capRet = [resp |-> CaptureNilResp, err |-> NoError]
    /\ C = <<>>
    /\ capBody = NoStream
    /\ capContent = <<>>
    /\ capErr = NoError
    /\ capLog = <<>>

\* Capture.RoundTrip, to its return. readOk tells whether the body of the
\* request can be read to its end, t is what the transport answers.
CaptureRoundTrip ==
    /\ capPc = "idle"
    /\ \E readOk \in BOOLEAN, t \in CaptureTransportOutcomes :
          LET cl == IF capReq.Body.open
                    THEN cloneRequestWithBody(capReq, readOk)
                    ELSE [req |-> capReq, err |-> NoError, caller |-> capReq]
          IN  /\ capReq' = cl.caller
              /\ IF cl.err # NoError
                 THEN /\ capRet' = [resp |-> CaptureNilResp, err |-> cl.err]
                      /\ capPc' = "returned"
                      /\ UNCHANGED <<capSent, C, capBody>>
                 ELSE /\ capSent' = cl.req
                      /\ capRet' = [resp |-> t.resp, err |-> t.err]
                      /\ IF t.resp.present
                         THEN /\ capPc' = "body"
                              /\ capBody' = t.stream
                              /\ C' = C
                         ELSE /\ capPc' = "returned"
                              /\ C' = Append(C, Record(cl.req, CaptureNilResp, t.err))
                              /\ UNCHANGED capBody
    /\ UNCHANGED <<capContent, capErr, capLog, outsideCapture>>

\* captureBody.Read: the body gives n bytes, or the error it ends with.
CaptureBodyRead ==
    /\ capPc = "body"
    /\ Len(capLog) < MaxBodyOps
    /\ IF capBody.closed
       THEN /\ capErr' = IF capErr = NoError THEN PlainError(ClosedMsg) ELSE capErr
            /\ capLog' = Append(capLog, ClosedMsg)
            /\ UNCHANGED <<capBody, capContent>>
       ELSE IF capBody.data # <<>>
       THEN \E n \in 1..Len(capBody.data) :
              /\ capContent' = capContent \o SubSeq(capBody.data, 1, n)
              /\ capBody' = [capBody EXCEPT !.data = SubSeq(capBody.data, n + 1, Len(capBody.data))]
              /\ capLog' = Append(capLog, "nil")
              /\ UNCHANGED capErr
       ELSE /\ capErr' = IF capBody.end # EOFMsg /\ capErr = NoError
                          THEN PlainError(capBody.end) ELSE capErr
            /\ capLog' = Append(capLog, capBody.end)
            /\ UNCHANGED <<capBody, capContent>>
    /\ UNCHANGED <<capPc, capReq, capSent, capRet, C, outsideCapture>>

\* captureBody.Close.
CaptureBodyClose ==
    /\ capPc = "body"
    /\ Len(capLog) < MaxBodyOps
    /\ capBody' = [capBody EXCEPT !.closed = TRUE]
    /\ C' = Append(C, Record(capSent, [capRet.resp EXCEPT !.Body = capContent], capErr))
    /\ capLog' = Append(capLog, "Close")
    /\ UNCHANGED <<capPc, capReq, capSent, capRet, capContent, capErr, outsideCapture>>

NextCapture == CaptureRoundTrip \/ CaptureBodyRead \/ CaptureBodyClose

-----------------------------------------------------------------------------
(* PostCompressed.RoundTrip and PostCompressed.getBody.                        *)

\* The encodings getBody knows.
PostEncodings == {"gzip", "br", "zstd"}

\* The values of p.Encoding: unset, unknown, known.
EncodingValues == {"", "bad"} \cup PostEncodings

\* The values of p.Level: unset, good for every encoding, good for gzip and br
\* only, good for br only.
LevelValues == {0, 3, 7, 11}

\* Whether the writer of encoding enc accepts level l, 0 standing for the
\* default: gzip takes 1 to 9, zstd 1 to 4, and brotli.NewWriterLevel gives no
\* error.
LevelAccepted(enc, l) ==
    CASE enc = "gzip" -> (IF l = 0 THEN 3 ELSE l) \in 1..9
      [] enc = "zstd" -> (IF l = 0 THEN 1 ELSE l) \in 1..4
      [] OTHER -> TRUE

\* A request body as PostCompressed sees it. kind "nil": req.Body == nil;
\* "NoBody": http.NoBody; "stream": a reader of data, whose Read fails once
\* the data are read when ~readOk; "pipe": the reading end of the pipe of
\* getBody, giving data encoded as enc and then err ("": io.EOF).
PostBody(kind, data, readOk) ==
    [kind |-> kind, data |-> data, readOk |-> readOk, enc |-> "", err |-> ""]

Pipe(enc, data, e) ==
    [kind |-> "pipe", data |-> data, readOk |-> e = "", enc |-> enc, err |-> e]

\* p.getBody(oldBody): the pipe and the error. The goroutine writes to the
\* pipe what the encoder makes of oldBody, and closes it with the error of the
\* encoder or of oldBody.
getBody(enc, l, oldBody) ==
    IF enc = "" THEN [body |-> PostBody("nil", <<>>, TRUE),
                      err |-> "do not use PostCompressed without Encoding"]
    ELSE IF enc \notin PostEncodings
    THEN [body |-> PostBody("nil", <<>>, TRUE), err |-> "invalid Encoding value"]
    ELSE IF ~LevelAccepted(enc, l)
    THEN [body |-> Pipe(enc, <<>>, "invalid compression level"), err |-> ""]
    ELSE IF ~oldBody.readOk
    THEN [body |-> Pipe(enc, oldBody.data, ReadMsg), err |-> ""]
    ELSE [body |-> Pipe(enc, oldBody.data, ""), err |-> ""]

\* What a server that decodes enc reads from the body b: the bytes, and
\* whether it got to their end.
Decode(enc, b) ==
    IF b.kind = "pipe" /\ b.enc = enc /\ b.err = ""
    THEN [data |-> b.data, ok |-> TRUE]
    ELSE [data |-> <<>>, ok |-> FALSE]

\* A request: Body, whether GetBody is set ("nil", "caller", "compressing":
\* the closure RoundTrip installs), ContentLength and Header.
PostRequest(body, getBodyFn, cl, h) ==
    [Body |-> body, GetBody |-> getBodyFn, ContentLength |-> cl, Header |-> h]

\* The bodies of the requests of the model.
PostBodies ==
    {PostBody("nil", <<>>, TRUE), PostBody("NoBody", <<>>, TRUE)}
    \cup {PostBody("stream", b, ok) : b \in Bodies, ok \in BOOLEAN}

\* Their headers: Content-Encoding absent, empty or set; Content-Length
\* absent or set.
PostHeaders ==
    {[k \in ks |-> IF k = "Content-Length" THEN <<"2">> ELSE v] :
        ks \in SUBSET {"Content-Encoding", "Content-Length"}, v \in {<<"">>, <<"gzip">>}}

PostArgs ==
    [fn : {"PostCompressed.RoundTrip"},
     Encoding : EncodingValues,
     Level : LevelValues,
     req : {PostRequest(b, g, Len(b.data), h) :
               b \in PostBodies, g \in {"nil", "caller"}, h \in PostHeaders}]

\* The request no transport saw.
PostNoRequest == PostRequest(PostBody("nil", <<>>, TRUE), "nil", 0, <<>>)

\* PostCompressed.RoundTrip that sets no Content-Encoding.
PostRoundTripUnlabelled(enc, l, r) ==
    IF r.Body.kind = "nil" \/ HeaderGet(r.Header, "Content-Encoding") # ""
    THEN [calls |-> 1, fwd |-> r, resp |-> "transport's", err |-> "transport's"]
    ELSE LET b == getBody(enc, l, r.Body)
         IN  IF b.err # ""
             THEN [calls |-> 0, fwd |-> PostNoRequest, resp |-> "nil", err |-> b.err]
             ELSE [calls |-> 1,
                   fwd |-> PostRequest(b.body,
                                       IF r.GetBody # "nil" THEN "compressing" ELSE "nil",
                                       -1,
                                       HeaderDel(r.Header, "Content-Length")),
                   resp |-> "transport's", err |-> "transport's"]

\* PostCompressed.RoundTrip(req): how many times it called p.Transport, the
\* request it handed to it, and what it returned.
PostRoundTrip(enc, l, r) ==
    IF r.Body.kind = "nil" \/ HeaderGet(r.Header, "Content-Encoding") # ""
    THEN [calls |-> 1, fwd |-> r, resp |-> "transport's", err |-> "transport's"]
    ELSE LET b == getBody(enc, l, r.Body)
         IN  IF b.err # ""
             THEN [calls |-> 0, fwd |-> PostNoRequest, resp |-> "nil", err |-> b.err]
             ELSE [calls |-> 1,
                   fwd |-> PostRequest(b.body,
                                       IF r.GetBody # "nil" THEN "compressing" ELSE "nil",
                                       -1,
                                       HeaderSet(HeaderDel(r.Header, "Content-Length"),
                                                 "Content-Encoding", enc)),
                   resp |-> "transport's", err |-> "transport's"]

CallPostRoundTrip ==
    /\ arg.fn = "PostCompressed.RoundTrip"
    /\ out = NoCall
    /\ out' = [fn |-> "PostCompressed.RoundTrip",
               value |-> PostRoundTrip(arg.Encoding, arg.Level, arg.req)]
    /\ UNCHANGED <<retryVars, arg, outsideRetry>>

NextPost == CallPostRoundTrip

-----------------------------------------------------------------------------
(* AcceptCompressed.RoundTrip.                                                 *)

\* A response body: the bytes it carries, the encoding they are really in
\* ("": none), the decoder RoundTrip put in front of it ("": none), and
\* whether RoundTrip closed it.
AcceptBody(enc, data) == [enc |-> enc, data |-> data, decoder |-> "", closed |-> FALSE]

\* A response as AcceptCompressed sees it.
AcceptNilResp ==
    [present |-> FALSE, Header |-> <<>>, ContentLength |-> 0, Uncompressed |-> FALSE,
     Body |-> AcceptBody("", <<>>)]

AcceptResp(h, cl, b) ==
    [present |-> TRUE, Header |-> h, ContentLength |-> cl, Uncompressed |-> FALSE, Body |-> b]

\* gzip.NewReader(resp.Body) reads the gzip header and fails when the stream
\* does not start with one; brotli.NewReader and zstd.NewReader read nothing.
NewReaderFails(ce, b) == ce = "gzip" /\ b.enc # "gzip"

\* What reading the returned body to its end gives.
ReadAllBody(b) ==
    IF b.decoder = b.enc THEN [data |-> b.data, ok |-> TRUE]
    ELSE [data |-> <<>>, ok |-> FALSE]

\* The Content-Encoding values of the responses: the three known, the two
\* that leave the body alone, and one unknown.
ContentEncodings == {"br", "gzip", "zstd", "", "identity", "new_quantum_compression"}

AcceptHeaders ==
    {[k \in ks |-> IF k = "Content-Length" THEN <<"2">> ELSE <<ce>>] :
        ks \in SUBSET {"Content-Encoding", "Content-Length"}, ce \in ContentEncodings}

\* What the wrapped transport answers.
AcceptTransportOutcomes ==
    {[resp |-> AcceptResp(h, Len(b), AcceptBody(enc, b)), err |-> ""] :
        h \in AcceptHeaders, b \in Bodies, enc \in {"", "br", "gzip", "zstd"}}
    \cup {[resp |-> AcceptNilResp, err |-> "dial"]}

\* The case of br, gzip and zstd that leaves the headers as they came.
DecodedKeepingHeaders(rsp, ce) ==
    [rsp EXCEPT !.Body.decoder = ce, !.ContentLength = -1, !.Uncompressed = TRUE]

\* The case of br, gzip and zstd once the reader is made.
Decoded(rsp, ce) ==
    [rsp EXCEPT !.Body.decoder = ce,
                !.Header = HeaderDel(HeaderDel(rsp.Header, "Content-Encoding"), "Content-Length"),
                !.ContentLength = -1,
                !.Uncompressed = TRUE]

\* AcceptCompressed.RoundTrip(req) over a transport that answers t: the
\* Accept-Encoding the transport saw, what RoundTrip returned, and whether it
\* closed the body of the response.
AcceptRoundTrip(h, t) ==
    LET asked == HeaderSet(h, "Accept-Encoding", "zstd, br, gzip")
        ce == HeaderGet(t.resp.Header, "Content-Encoding")
    IN  IF ~t.resp.present
        THEN [fwd |-> asked, resp |-> t.resp, err |-> t.err, closed |-> FALSE]
        ELSE IF ce \in {"br", "gzip", "zstd"}
        THEN IF NewReaderFails(ce, t.resp.Body)
             THEN [fwd |-> asked, resp |-> AcceptNilResp, err |-> "gzip: invalid header",
                   closed |-> TRUE]
             ELSE [fwd |-> asked, resp |-> Decoded(t.resp, ce), err |-> t.err, closed |-> FALSE]
        ELSE IF ce \in {"", "identity"}
        THEN [fwd |-> asked, resp |-> t.resp, err |-> t.err, closed |-> FALSE]
        ELSE [fwd |-> asked, resp |-> AcceptNilResp, err |-> "unsupported Content-Encoding",
              closed |-> TRUE]

AcceptArgs ==
    [fn : {"AcceptCompressed.RoundTrip"},
     req : HeaderMaps({"Accept-Encoding"}, {<<"gzip">>}),
     transport : AcceptTransportOutcomes]

CallAcceptRoundTrip ==
    /\ arg.fn = "AcceptCompressed.RoundTrip"
    /\ out = NoCall
    /\ out' = [fn |-> "AcceptCompressed.RoundTrip",
               value |-> AcceptRoundTrip(arg.req, arg.transport)]
    /\ UNCHANGED <<retryVars, arg, outsideRetry>>

NextAccept == CallAcceptRoundTrip

-----------------------------------------------------------------------------
(* logBody: Read and Close of the body of a response that went through Log.    *)

\* The levels of slog the model uses.
SlogLevels == {"DEBUG", "INFO", "ERROR"}

\* A body: data are the bytes not read yet, of total at the start; end is the
\* error Read gives once they are read, close the error Close gives ("": nil).
LogStream(data, end, close) ==
    [data |-> data, total |-> Len(data), end |-> end, close |-> close, closed |-> FALSE]

\* A record handed to the logger by Close: its level, the name of its first
\* attribute ("size" or "body") with its value, and err.
LogRecord(lvl, attr, size, content, e) ==
    [level |-> lvl, attr |-> attr, size |-> size, body |-> content, err |-> e]

\* The state of a logBody Log.RoundTrip has just made.
InitLogBody(includes, levels, streams) ==
    /\ includeResponseBody \in includes
    /\ lbLevel \in levels
    /\ lbBody \in streams
    /\ lbContent = <<>>
    /\ responseSize = 0
    /\ lbErr = ""
    /\ logged = <<>>
    /\ lbOps = <<>>

\* logBody.Read: the body gives n bytes, or the error it ends with.
LogBodyRead ==
    /\ Len(lbOps) < MaxBodyOps
    /\ lbBody.data # <<>> \/ lbBody.end # "unused"
    /\ IF lbBody.closed
       THEN /\ lbErr' = IF lbErr = "" THEN ClosedMsg ELSE lbErr
            /\ lbOps' = Append(lbOps, ClosedMsg)
            /\ UNCHANGED <<lbBody, lbContent, responseSize>>
       ELSE IF lbBody.data # <<>>
       THEN \E n \in 1..Len(lbBody.data) :
              /\ IF includeResponseBody
                 THEN /\ lbContent' = lbContent \o SubSeq(lbBody.data, 1, n)
                      /\ UNCHANGED responseSize
                 ELSE /\ responseSize' = responseSize + n
                      /\ UNCHANGED lbContent
              /\ lbBody' = [lbBody EXCEPT !.data = SubSeq(lbBody.data, n + 1, Len(lbBody.data))]
              /\ lbOps' = Append(lbOps, "read")
              /\ UNCHANGED lbErr
       ELSE /\ lbErr' = IF lbBody.end # EOFMsg /\ lbErr = "" THEN lbBody.end ELSE lbErr
            /\ lbOps' = Append(lbOps, lbBody.end)
            /\ UNCHANGED <<lbBody, lbContent, responseSize>>
    /\ UNCHANGED <<includeResponseBody, lbLevel, logged, outsideLogBody>>

\* logBody.Close.
LogBodyClose ==
    /\ Len(lbOps) < MaxBodyOps
    /\ lbBody.end # "unused"
    /\ LET e == IF lbBody.close # "" /\ lbErr = "" THEN lbBody.close ELSE lbErr
           lvl == IF e # "" THEN "ERROR" ELSE lbLevel
       IN  /\ lbErr' = e
           /\ logged' = Append(logged,
                  IF includeResponseBody
                  THEN LogRecord(lvl, "size", responseSize, <<>>, e)
                  ELSE LogRecord(lvl, "body", 0, lbContent, e))
    /\ lbBody' = [lbBody EXCEPT !.closed = TRUE]
    /\ lbOps' = Append(lbOps, "Close")
    /\ UNCHANGED <<includeResponseBody, lbLevel, lbContent, responseSize, outsideLogBody>>

NextLogBody == LogBodyRead \/ LogBodyClose

-----------------------------------------------------------------------------
(* Unwrap. A transport is the decorators in front of it, outermost first, and  *)
(* the transport at the end of the chain, which is not of this package.        *)

\* The types of the package with a Transport field.
Decorators ==
    {"Retry", "Throttle", "Header", "RequestID", "Log", "Capture", "AcceptCompressed",
     "PostCompressed"}

\* The types of the package with an Unwrap method.
Unwrappers ==
    {"Retry", "Capture", "Header", "PostCompressed", "RequestID", "Log", "Throttle",
     "AcceptCompressed"}

Transport(chain, inner) == [chain |-> chain, inner |-> inner]

\* The value of the Transport field of the outermost decorator of t.
TransportField(t) == Transport(Tail(t.chain), t.inner)

\* t.(Unwrapper): whether the type assertion holds.
IsUnwrapper(t) == t.chain # <<>> /\ Head(t.chain) \in Unwrappers

\* An Unwrap that gives back its receiver.
UnwrapSelf(t) == t

\* t.Unwrap(): return t.Transport.
Unwrap(t) == TransportField(t)

Chains == UNION {[1..n -> Decorators] : n \in 1..MaxChain}

UnwrapArgs ==
    [fn : {"Unwrap"},
     t : {Transport(c, i) : c \in Chains, i \in {"http.DefaultTransport", "custom"}}]

\* r.(Unwrapper).Unwrap() on the configured transport.
CallUnwrap ==
    /\ arg.fn = "Unwrap"
    /\ out = NoCall
    /\ IsUnwrapper(arg.t)
    /\ out' = [fn |-> "Unwrap", value |-> Unwrap(arg.t), n |-> 1]
    /\ UNCHANGED <<retryVars, arg, outsideRetry>>

\* The same on what the previous Unwrap returned.
CallUnwrapAgain ==
    /\ out.fn = "Unwrap"
    /\ IsUnwrapper(out.value)
    /\ out' = [fn |-> "Unwrap", value |-> Unwrap(out.value), n |-> out.n + 1]
    /\ UNCHANGED <<retryVars, arg, outsideRetry>>

NextUnwrap == CallUnwrap \/ CallUnwrapAgain

-----------------------------------------------------------------------------
(* Direct calls of isNotRetriableError.                                        *)

\* The texts of the errors it is called on.
ErrorMsgs ==
    {RedirectsMsg, SchemeMsg, InvalidHeaderMsg, NotTrustedMsg, CertVerifyMsg, ResetMsg,
     CanceledMsg, ResetAtHeaderUrlMsg, ResetAtRedirectsUrlMsg}

\* The errors: nil, *url.Error over errors of several types, errors of
\* another type with the same texts, and errors that wrap a *url.Error.
ClassifiedErrors ==
    {NoError}
    \cup {UrlError(i, m) :
             i \in {"error", "*tls.CertificateVerificationError",
                     "x509.UnknownAuthorityError", "*net.OpError"},
             m \in ErrorMsgs}
    \cup {PlainError(m) : m \in ErrorMsgs}
    \cup {WrappedError(m) : m \in ErrorMsgs}

ClassifyArgs == [fn : {"isNotRetriableError"}, err : ClassifiedErrors]

CallIsNotRetriableError ==
    /\ arg.fn = "isNotRetriableError"
    /\ out = NoCall
    /\ out' = [fn |-> "isNotRetriableError", value |-> isNotRetriableError(arg.err)]
    /\ UNCHANGED <<retryVars, arg, outsideRetry>>

NextClassify == CallIsNotRetriableError

-----------------------------------------------------------------------------
(* A Throttle as the Transport of a Retry: Retry{Transport: &Throttle{...}}.   *)
(* Attempt number n of the Retry is call number n of the Throttle, made when   *)
(* the previous one has returned. The request the Throttle sees is the clone   *)
(* of the Retry, which carries the context of the caller's request. The wait   *)
(* of the Retry is the stub of the package's tests, which fires at once.       *)

\* A Throttle that returns nil, nil from the ctx.Done() case.
ThrottleResultNoError(t, o) ==
    IF t = ThrottleTransportReturn THEN o ELSE [resp |-> NilResp, err |-> NoError]

\* What the Retry receives from t.RoundTrip: the pair of the wrapped
\* transport, or nil and ctx.Err(), which is context.Canceled.
ThrottleResult(t, o) ==
    IF t = ThrottleTransportReturn THEN o
    ELSE [resp |-> NilResp, err |-> PlainError(CanceledMsg)]

\* The Throttle steps of the attempt in flight.
NestedThrottleLock == pc = "transport" /\ calls \in Callers /\ ThrottleLock(calls)
NestedThrottleReserve == pc = "transport" /\ calls \in Callers /\ ThrottleReserve(calls)
NestedThrottleTimeAfter == pc = "transport" /\ calls \in Callers /\ ThrottleTimeAfter(calls)
NestedThrottleCtxDone == pc = "transport" /\ calls \in Callers /\ ThrottleCtxDone(calls)
NestedThrottleTransportDone ==
    pc = "transport" /\ calls \in Callers /\ ThrottleTransportDone(calls)

\* r.Transport.RoundTrip(req) returns what the Throttle returned: the pair of
\* the wrapped transport, which answered within the second and read some of
\* the request body, or the pair of the ctx.Done() case.
NestedTransportReturn ==
    /\ pc = "transport"
    /\ calls \in Callers
    /\ tpc[calls] = "done"
    /\ IF tret[calls] = ThrottleTransportReturn
       THEN \E o \in Outcomes(calls), k \in 0..Len(req.Body.data) :
               /\ resp' = ThrottleResult(tret[calls], o).resp
               /\ err' = ThrottleResult(tret[calls], o).err
               /\ req' = [req EXCEPT !.Body = ReadFrom(req.Body, k)]
               /\ callerReq' = IF req.Body.owner = "caller"
                               THEN [callerReq EXCEPT !.Body = ReadFrom(callerReq.Body, k)]
                               ELSE callerReq
       ELSE /\ resp' = ThrottleResult(tret[calls], NoReturn).resp
            /\ err' = ThrottleResult(tret[calls], NoReturn).err
            /\ UNCHANGED <<req, callerReq>>
    /\ pc' = "loop"
    /\ UNCHANGED <<Policy, policy, origBody, now, start, try, sleep, cancelled, calls, waits,
                   sent, closed, ret, exit, arg, out, outsideRetry>>

\* case <-timeAfter(sleep) with the stub: no time passes; drain and close the
\* previous response, try++, call the Throttle again.
NestedSelectTimeAfter ==
    /\ pc = "select"
    /\ calls < NumCallers
    /\ waits' = waits + 1
    /\ closed' = DrainAndClose(closed, resp)
    /\ try' = try + 1
    /\ calls' = calls + 1
    /\ sent' = req.Body.data
    /\ pc' = "transport"
    /\ UNCHANGED <<Policy, policy, callerReq, origBody, req, now, start, resp, err, sleep,
                   cancelled, ret, exit, arg, out, outsideRetry>>

\* The context of the caller's request is cancelled: the Retry and the
\* Throttle look at the same context.
NestedCancel ==
    /\ pc \in {"idle", "transport", "loop", "select"}
    /\ ~cancelled
    /\ cancelled' = TRUE
    /\ tctx' = [g \in Callers |-> TRUE]
    /\ UNCHANGED <<pc, Policy, policy, callerReq, origBody, req, now, start, try, resp, err,
                   sleep, calls, waits, sent, closed, ret, exit, arg, out>>
    /\ UNCHANGED <<QPS, TimeAfter, clock, mu, lastRequest, tpc, tnow, tsleep, tret,
                   serial, slots, reads, timers, lockCount, invokedAt>>
    /\ UNCHANGED <<captureVars, logBodyVars>>

NextNested ==
    \/ RoundTripStart
    \/ NestedThrottleLock
    \/ NestedThrottleReserve
    \/ NestedThrottleTimeAfter
    \/ NestedThrottleCtxDone
    \/ NestedThrottleTransportDone
    \/ ThrottleTick
    \/ NestedTransportReturn
    \/ LoopEnd
    \/ LoopBody
    \/ SelectCtxDone
    \/ NestedSelectTimeAfter
    \/ NestedCancel

-----------------------------------------------------------------------------
(* The request as an object. A *http.Request points to a struct whose Header   *)
(* field points to a map; objs gives the struct behind each pointer and maps   *)
(* the map behind each Header field. The caller's request is the pointer       *)
(* "caller" with the map "callerHeader".                                       *)

\* The memory before a call: the caller's request and its header map.
HeapOf(h, r) ==
    [objs |-> [x \in {"caller"} |->
                 [Header |-> "callerHeader", Body |-> r.Body, GetBody |-> r.GetBody,
                  in |-> r.in]],
     maps |-> [x \in {"callerHeader"} |-> h]]

\* No clone: the decorator works on the request it was given.
CloneNone(heap, ptr) == [heap |-> heap, ptr |-> ptr]

\* req.Clone(req.Context()): a new struct with the fields of the old one, its
\* Header a new map with copies of the values; Body and GetBody are copied as
\* they are.
Clone(heap, ptr) ==
    LET old == heap.objs[ptr]
    IN  [heap |->
            [objs |-> [x \in DOMAIN heap.objs \cup {"clone"} |->
                         IF x = "clone" THEN [old EXCEPT !.Header = "cloneHeader"]
                         ELSE heap.objs[x]],
             maps |-> [x \in DOMAIN heap.maps \cup {"cloneHeader"} |->
                         IF x = "cloneHeader" THEN heap.maps[old.Header]
                         ELSE heap.maps[x]]],
         ptr |-> "clone"]

\* What a decorator leaves behind: the memory, and the pointer it handed to
\* its Transport ("nil": it made no call).
Sent(heap, ptr) == [heap |-> heap, fwd |-> ptr]

\* Header.RoundTrip: clone, then Del, Set or Add on req.Header.
HeaderSend(heap, cfg, order) ==
    LET c == Clone(heap, "caller")
        m == c.heap.objs[c.ptr].Header
    IN  Sent([c.heap EXCEPT !.maps[m] = HeaderRange(@, cfg, order)], c.ptr)

\* RequestID.RoundTrip: clone, then req.Header.Set("X-Request-ID", genID()).
RequestIDSend(heap, id) ==
    LET c == Clone(heap, "caller")
        m == c.heap.objs[c.ptr].Header
    IN  Sent([c.heap EXCEPT !.maps[m] = HeaderSet(@, "X-Request-ID", id)], c.ptr)

\* AcceptCompressed.RoundTrip: clone, then
\* req.Header.Set("Accept-Encoding", "zstd, br, gzip").
AcceptSend(heap) ==
    LET c == Clone(heap, "caller")
        m == c.heap.objs[c.ptr].Header
    IN  Sent([c.heap EXCEPT !.maps[m] = HeaderSet(@, "Accept-Encoding", "zstd, br, gzip")],
             c.ptr)

\* cloneRequestWithBody on the heap: req2 := req.Clone(...); req2.GetBody and
\* req2.Body are assigned; io.ReadAll empties the stream both structs point to.
CloneWithBodyOn(heap, readOk) ==
    LET c == Clone(heap, "caller")
        w == cloneRequestWithBody(c.heap.objs[c.ptr], readOk)
        drained == [x \in DOMAIN c.heap.objs |->
                       IF c.heap.objs[x].Body.owner = "caller"
                       THEN [c.heap.objs[x] EXCEPT !.Body.data = w.caller.Body.data]
                       ELSE c.heap.objs[x]]
    IN  IF w.err # NoError
        THEN Sent([c.heap EXCEPT !.objs = drained], "nil")
        ELSE Sent([c.heap EXCEPT
                      !.objs = [drained EXCEPT ![c.ptr].Body = w.req.Body,
                                               ![c.ptr].GetBody = w.req.GetBody,
                                               ![c.ptr].in = w.req.in]],
                  c.ptr)

\* The loop of Retry.RoundTrip on the heap, n retries long: each one assigns
\* req.Body = req.GetBody() on the request Retry holds.
RECURSIVE RetryLoopOn(_, _)
RetryLoopOn(s, n) ==
    IF n = 0 \/ s.fwd = "nil" \/ s.heap.objs[s.fwd].GetBody = "nil" THEN s
    ELSE RetryLoopOn(
            Sent([s.heap EXCEPT !.objs[s.fwd].Body = GetBody(s.heap.objs[s.fwd], TRUE).body],
                 s.fwd),
            n - 1)

\* Retry.RoundTrip as far as the request goes.
RetrySend(heap, readOk, n) == RetryLoopOn(CloneWithBodyOn(heap, readOk), n)

\* The headers of the caller's request: the names two of the decorators set,
\* in the spelling of http.Header and in another, and one more.
CallerHeaderKeys == {"Accept-Encoding", "X-Request-Id", "X-Request-ID", "Test-A"}

\* The headers Header is configured with.
SendConfigs ==
    HeaderMaps({"Test-A", "Accept-Encoding"}, {<<>>, <<"v1">>, <<"v1", "v2">>})

SendArgs ==
    [fn : {"Retry", "Header", "RequestID", "AcceptCompressed"},
     Header : HeaderMaps(CallerHeaderKeys, {<<"old">>}),
     request : ShortRequests]

CallRetrySend ==
    /\ arg.fn = "Retry"
    /\ out = NoCall
    /\ \E readOk \in BOOLEAN, n \in 0..MaxTry :
          out' = [fn |-> "Retry",
                  value |-> RetrySend(HeapOf(arg.Header, arg.request), readOk, n)]
    /\ UNCHANGED <<retryVars, arg, outsideRetry>>

CallHeaderSend ==
    /\ arg.fn = "Header"
    /\ out = NoCall
    /\ \E cfg \in SendConfigs :
          \E order \in RangeOrders(DOMAIN cfg) :
             out' = [fn |-> "Header",
                     value |-> HeaderSend(HeapOf(arg.Header, arg.request), cfg, order)]
    /\ UNCHANGED <<retryVars, arg, outsideRetry>>

CallRequestIDSend ==
    /\ arg.fn = "RequestID"
    /\ out = NoCall
    /\ \E id \in GenIDs :
          out' = [fn |-> "RequestID",
                  value |-> RequestIDSend(HeapOf(arg.Header, arg.request), id)]
    /\ UNCHANGED <<retryVars, arg, outsideRetry>>

CallAcceptSend ==
    /\ arg.fn = "AcceptCompressed"
    /\ out = NoCall
    /\ out' = [fn |-> "AcceptCompressed",
               value |-> AcceptSend(HeapOf(arg.Header, arg.request))]
    /\ UNCHANGED <<retryVars, arg, outsideRetry>>

NextSend == CallRetrySend \/ CallHeaderSend \/ CallRequestIDSend \/ CallAcceptSend

-----------------------------------------------------------------------------
(* The specifications: each runs one component and leaves the others at rest. *)

\* The Retry and the policy calls at rest.
RetryUnused ==
    /\ InitRetry({DefaultRetryPolicy}, {Request(NoBody, "nil", <<>>)}, {0})
    /\ arg = NoCall
    /\ out = NoCall

\* The Throttle at rest.
ThrottleUnused == InitThrottle({0}, {"nil"}, {FALSE})

\* No logBody.
LogBodyUnused == InitLogBody({FALSE}, {"INFO"}, {LogStream(<<>>, "unused", "")})

\* Capture at rest.
CaptureUnused == InitCapture({NoRequest})

\* Every policy, set or unset, short requests: the loop, its waits and its exits.
Init ==
    /\ InitRetry(Policies \cup {NilPolicy}, ShortRequests, {0})
    /\ arg = NoCall
    /\ out = NoCall
    /\ ThrottleUnused
    /\ CaptureUnused
    /\ LogBodyUnused

Spec == Init /\ [][NextRetry]_vars

\* The default policy, every request: the request body across attempts.
InitBody ==
    /\ InitRetry({DefaultRetryPolicy}, Requests, {0})
    /\ arg = NoCall
    /\ out = NoCall
    /\ ThrottleUnused
    /\ CaptureUnused
    /\ LogBodyUnused

SpecBody == InitBody /\ [][NextRetry]_vars

\* Direct calls of ShouldRetry and Backoff.
InitPolicy ==
    /\ InitRetry(Policies, {Request(NoBody, "nil", <<>>)}, PolicyClock)
    /\ ThrottleUnused
    /\ CaptureUnused
    /\ LogBodyUnused
    /\ out = NoCall
    /\ \/ /\ arg \in ShouldRetryArgs
          /\ policy.Exp.den = 1
       \/ /\ arg \in BackoffArgs
          /\ now = 0

SpecPolicy == InitPolicy /\ [][NextPolicy]_vars

\* Direct calls of Header.RoundTrip.
InitHeader ==
    /\ InitRetry({DefaultRetryPolicy}, {Request(NoBody, "nil", <<>>)}, {0})
    /\ ThrottleUnused
    /\ CaptureUnused
    /\ LogBodyUnused
    /\ out = NoCall
    /\ arg \in HeaderArgs

SpecHeader == InitHeader /\ [][NextHeader]_vars

\* Requests through Log, alone or under RequestID.
InitLog ==
    /\ InitRetry({DefaultRetryPolicy}, {Request(NoBody, "nil", <<>>)}, {0})
    /\ ThrottleUnused
    /\ CaptureUnused
    /\ LogBodyUnused
    /\ out = NoCall
    /\ arg \in LogArgs

SpecLog == InitLog /\ [][NextLog]_vars

\* One request through Capture.
InitCaptured ==
    /\ InitRetry({DefaultRetryPolicy}, {Request(NoBody, "nil", <<>>)}, {0})
    /\ ThrottleUnused
    /\ arg = NoCall
    /\ out = NoCall
    /\ InitCapture(Requests)
    /\ LogBodyUnused

SpecCapture == InitCaptured /\ [][NextCapture]_vars

\* Requests through PostCompressed.
InitPost ==
    /\ InitRetry({DefaultRetryPolicy}, {Request(NoBody, "nil", <<>>)}, {0})
    /\ ThrottleUnused
    /\ CaptureUnused
    /\ LogBodyUnused
    /\ out = NoCall
    /\ arg \in PostArgs

SpecPost == InitPost /\ [][NextPost]_vars

\* Responses through AcceptCompressed.
InitAccept ==
    /\ InitRetry({DefaultRetryPolicy}, {Request(NoBody, "nil", <<>>)}, {0})
    /\ ThrottleUnused
    /\ CaptureUnused
    /\ LogBodyUnused
    /\ out = NoCall
    /\ arg \in AcceptArgs

SpecAccept == InitAccept /\ [][NextAccept]_vars

\* One response body under Log.
InitLoggedBody ==
    /\ RetryUnused
    /\ ThrottleUnused
    /\ CaptureUnused
    /\ InitLogBody(BOOLEAN, SlogLevels,
                   {LogStream(b, e, c) : b \in Bodies, e \in {EOFMsg, UnexpectedEOFMsg},
                                         c \in {"", "close failed"}})

SpecLogBody == InitLoggedBody /\ [][NextLogBody]_vars

\* Chains of decorators, unwrapped.
InitUnwrap ==
    /\ InitRetry({DefaultRetryPolicy}, {Request(NoBody, "nil", <<>>)}, {0})
    /\ ThrottleUnused
    /\ CaptureUnused
    /\ LogBodyUnused
    /\ out = NoCall
    /\ arg \in UnwrapArgs

SpecUnwrap == InitUnwrap /\ [][NextUnwrap]_vars

\* Retry under policies of the caller's own.
InitCustom ==
    /\ InitRetry(CustomPolicies, {Request(NoBody, "nil", <<>>)}, {0})
    /\ arg = NoCall
    /\ out = NoCall
    /\ ThrottleUnused
    /\ CaptureUnused
    /\ LogBodyUnused

SpecCustom == InitCustom /\ [][NextRetry]_vars

\* Direct calls of isNotRetriableError.
InitClassify ==
    /\ InitRetry({DefaultRetryPolicy}, {Request(NoBody, "nil", <<>>)}, {0})
    /\ ThrottleUnused
    /\ CaptureUnused
    /\ LogBodyUnused
    /\ out = NoCall
    /\ arg \in ClassifyArgs

SpecClassify == InitClassify /\ [][NextClassify]_vars

\* One Throttle and its callers.
InitThrottled ==
    /\ \/ InitThrottle(QPSValues, {"nil"}, BOOLEAN)
       \/ InitThrottle(QPSValues, {"hooked"}, {TRUE})
    /\ RetryUnused
    /\ CaptureUnused
    /\ LogBodyUnused

SpecThrottle == InitThrottled /\ [][NextThrottle]_vars

\* One request through one of the four decorators that clone it.
InitSend ==
    /\ InitRetry({DefaultRetryPolicy}, {Request(NoBody, "nil", <<>>)}, {0})
    /\ arg \in SendArgs
    /\ out = NoCall
    /\ ThrottleUnused
    /\ CaptureUnused
    /\ LogBodyUnused

SpecSend == InitSend /\ [][NextSend]_vars

\* Policies of finite MaxTryCount and the policy that always retries,
\* requests with an empty body, with and without a GetBody; every transport call returns, every step of RoundTrip is taken,
\* and every wait ends, by its timer or by the cancellation of the context.
InitLive ==
    /\ InitRetry({ExponentialBackoff(n, 10, 2, 1) : n \in {1, MaxTry}} \cup {AlwaysRetry},
                 {Request(CallerBody(<<>>), g, <<>>) : g \in {"nil", "caller"}},
                 {0})
    /\ arg = NoCall
    /\ out = NoCall
    /\ ThrottleUnused
    /\ CaptureUnused
    /\ LogBodyUnused

SpecLive ==
    /\ InitLive
    /\ [][NextRetry]_vars
    /\ WF_vars(RoundTripStart)
    /\ WF_vars(TransportReturn)
    /\ WF_vars(LoopEnd)
    /\ WF_vars(LoopBody)
    /\ WF_vars(SelectTimeAfter \/ SelectCtxDone)

\* A Retry with the default policy, set or left unset, in front of a
\* Throttle of 10 or 20 requests per second; a request without a body.
InitNested ==
    /\ InitRetry({NilPolicy, DefaultRetryPolicy}, {Request(NoBody, "nil", <<>>)}, {0})
    /\ arg = NoCall
    /\ out = NoCall
    /\ InitThrottle({10, 20}, {"nil"}, {TRUE})
    /\ CaptureUnused
    /\ LogBodyUnused

SpecNested == InitNested /\ [][NextNested]_vars

-----------------------------------------------------------------------------
(* The claims. *)

\* The status codes the specification calls retriable.
RetriableCodes == {429, 502, 503, 504, 529}

\* The response carries a retriable status.
RetriableStatus(rsp) == rsp # NilResp /\ rsp.StatusCode \in RetriableCodes

\* The errors the specification classifies as non-retriable: redirect limit,
\* unsupported scheme, invalid header, certificate trust failure.
NonRetriableErrors ==
    {UrlError("error", RedirectsMsg), UrlError("error", SchemeMsg),
     UrlError("error", InvalidHeaderMsg), UrlError("error", NotTrustedMsg),
     UrlError("*tls.CertificateVerificationError", CertVerifyMsg)}

\* RoundTrip returned after at least one transport call.
Returned == pc = "done" /\ exit # "clone"

C3_ShouldRetryStops ==
    (/\ out.fn = "ShouldRetry"
     /\ \/ arg.try >= policy.MaxTryCount
        \/ now - start > policy.MaxDuration
        \/ arg.ctx
        \/ arg.err \in NonRetriableErrors
        \/ arg.resp = NilResp) =>
        out.value = FALSE

\* C3's case: a 503 is refused because the context is cancelled, nothing else.
C3_Witness ==
    /\ out.fn = "ShouldRetry"
    /\ out.value = FALSE
    /\ arg.resp.StatusCode = 503
    /\ arg.ctx
    /\ arg.try < policy.MaxTryCount
    /\ now = start
    /\ arg.err = NoError

\* C4, as claimed: against a transport that answers every call with a
\* retriable status, RoundTrip makes at most MaxTryCount+1 calls and returns
\* the response and the error of the last attempt, its body neither drained
\* nor closed.
C4_AsClaimed ==
    (Returned /\ RetriableStatus(resp)) =>
        /\ calls <= policy.MaxTryCount + 1
        /\ ret.resp = resp
        /\ ret.err = err
        /\ resp.id \notin closed

\* C4, amended: the error returned is the last attempt's unless the body
\* replay factory failed, and then it is the factory's error.
C4_Amended ==
    (Returned /\ RetriableStatus(resp)) =>
        /\ calls <= policy.MaxTryCount + 1
        /\ ret.resp = resp
        /\ resp.id \notin closed
        /\ ret.err = IF exit = "getbody" THEN PlainError(GetBodyMsg) ELSE err

\* C4's case: every allowed attempt was answered 503 and the last 503 is
\* returned, the earlier ones closed.
C4_Witness ==
    /\ pc = "done" /\ exit = "policy"
    /\ policy.MaxTryCount = 2
    /\ calls = 3
    /\ ret.resp.StatusCode = 503 /\ ret.resp.id = 3
    /\ closed = {1, 2}

\* C5: whenever the transport is called for a request that has a body, with or
\* without GetBody, the bytes it can read from req.Body are the original body.
C5_BodyReplayed ==
    (calls > 0 /\ callerReq.Body.open) => sent = origBody

\* C5's case: a retry attempt of a request without GetBody whose first attempt
\* read the whole body.
C5_Witness ==
    /\ pc = "loop"
    /\ calls = 3
    /\ callerReq.GetBody = "nil"
    /\ Len(origBody) = 2
    /\ sent = origBody
    /\ req.Body.data = <<>>

\* The duration a Retry-After header names: n seconds, or the time from now to
\* its date.
HeaderDuration(h) ==
    IF h.kind = "int" THEN [neg |-> h.neg, gs |-> h.gs, s |-> h.s, ns |-> 0]
    ELSE IF h.kind = "date" THEN Seconds(h.s - now)
    ELSE ZeroDuration

\* C6, as claimed: in the select the wait is the Retry-After value of the
\* previous response when that is an integer of seconds or an RFC 1123 date
\* and names a strictly positive duration, and policy.Backoff(start, try)
\* otherwise.
C6_AsClaimed ==
    pc = "select" =>
        sleep = IF resp # NilResp /\ Positive(HeaderDuration(resp.RetryAfter))
                THEN HeaderDuration(resp.RetryAfter)
                ELSE Backoff(policy, start, try)

\* C7: when ctx.Done() wins the select, RoundTrip returns at once the previous
\* attempt's response and error, the response untouched, with no further
\* transport call.
C7_CancelReturnsPrevious ==
    exit = "ctx" =>
        /\ pc = "done"
        /\ ret = [resp |-> resp, err |-> err]
        /\ resp.id \notin closed
        /\ calls = waits + 1

\* C7's case: cancelled in the wait after a first 503.
C7_Witness ==
    /\ exit = "ctx"
    /\ calls = 1
    /\ ret.resp.StatusCode = 503 /\ ret.resp.id = 1

C9_NonRetriableOnce ==
    (/\ policy = DefaultRetryPolicy
     /\ calls = 1
     /\ resp = NilResp
     /\ err \in NonRetriableErrors) =>
        /\ pc \in {"loop", "done"}
        /\ waits = 0
        /\ pc = "done" => ret = [resp |-> NilResp, err |-> err]

\* C9's case: an unsupported scheme, returned after one call.
C9_Witness ==
    /\ pc = "done"
    /\ policy = DefaultRetryPolicy
    /\ calls = 1 /\ waits = 0
    /\ ret = [resp |-> NilResp, err |-> UrlError("error", SchemeMsg)]

\* base^n seconds, written exactly, for a base num/den with den^n dividing 10^9.
PowSeconds(x, n) ==
    LET p == IntPow(x.num, n)
        q == IntPow(x.den, n)
    IN  [neg |-> FALSE, gs |-> 0, s |-> p \div q, ns |-> (p % q) * (Second \div q)]

\* C10, as claimed: for every base, integer or not, and every n below
\* MaxTryCount, Backoff(start, n) is exactly base^n seconds, whatever start is.
C10_AsClaimed ==
    (out.fn = "Backoff" /\ arg.try < policy.MaxTryCount) =>
        /\ out.value = PowSeconds(policy.Exp, arg.try)
        /\ \A st \in 0..SlowCall : Backoff(policy, st, arg.try) = out.value

\* C11: a Retry whose Policy is unset works with ExponentialBackoff{3, 10s, 2}:
\* its policy backoffs at tries 0, 1, 2 are 1 s, 2 s, 4 s, and as long as no
\* more than MaxDuration = 10 s has passed (which 1 + 2 + 4 = 7 s of backoff
\* alone never exceeds) a retriable answer is only returned after the three
\* retries were made.
C11_UnsetPolicyIsDefault ==
    (Policy = NilPolicy /\ pc # "idle") =>
        /\ policy = ExponentialBackoff(3, 10, 2, 1)
        /\ (pc = "select" /\ ~parseRetryAfterHeader(resp.RetryAfter).ok) =>
               /\ try \in 0..2
               /\ sleep = Seconds(IntPow(2, try))
        /\ (/\ pc = "done" /\ exit = "policy"
            /\ RetriableStatus(resp) /\ err = NoError
            /\ ~cancelled
            /\ now - start <= 10) => (calls = 4 /\ waits = 3)

\* C11's case: an unset policy, four calls answered at once with a 503 that
\* carries no Retry-After, three backoffs of 7 s in all.
C11_Witness ==
    /\ Policy = NilPolicy
    /\ pc = "done" /\ exit = "policy"
    /\ calls = 4 /\ waits = 3
    /\ now - start = 7
    /\ ret.resp.StatusCode = 503 /\ ret.resp.RetryAfter = NoHeader

C14_AsClaimed ==
    (QPS > 0 /\ TimeAfter = "nil") =>
        \A g, h \in Callers :
            (g # h /\ invokedAt[g] # Never /\ invokedAt[h] # Never /\ invokedAt[g] <= invokedAt[h])
                => invokedAt[h] - invokedAt[g] >= Window(QPS)

\* C15: with QPS <= 0 no caller ever takes the lock, computes a sleep, sets a
\* timer or waits, lastRequest stays the zero time, and every request that was
\* made has gone to the transport in the step that made it.
C15_NoThrottle ==
    QPS <= 0 =>
        /\ lockCount = 0 /\ mu = 0
        /\ lastRequest = ZeroTime /\ slots = <<>> /\ reads = <<>>
        /\ \A g \in Callers :
              /\ timers[g] = NoTimer /\ tsleep[g] = 0
              /\ tpc[g] \in {"idle", "transport", "done"}
              /\ tpc[g] # "idle" => invokedAt[g] # Never
              /\ tpc[g] = "done" => tret[g] = ThrottleTransportReturn

\* C15's case: QPS = 0 and three concurrent requests, all of them handed to
\* the transport at the same reading of the clock.
C15_Witness ==
    /\ QPS = 0 /\ ~serial
    /\ \A g \in Callers : tpc[g] = "transport" /\ invokedAt[g] = 0
    /\ lockCount = 0

\* C16: a caller that left the select by ctx.Done() returned nil and ctx.Err()
\* and its request never reached the transport; a request never returns
\* without the transport having been called in any other way.
C16_CancelInWait ==
    \A g \in Callers :
        /\ tret[g] = ThrottleCtxReturn =>
              (tpc[g] = "done" /\ invokedAt[g] = Never /\ tctx[g] /\ timers[g] > 0)
        /\ (tpc[g] = "done" /\ invokedAt[g] = Never) => tret[g] = ThrottleCtxReturn

\* C16's case: the second caller is cancelled in its wait and returns while
\* the first one's request is with the transport.
C16_Witness ==
    /\ QPS = 10
    /\ tpc[2] = "done" /\ tret[2] = ThrottleCtxReturn
    /\ invokedAt[2] = Never /\ invokedAt[1] = 0
    /\ timers[2] = Window(10)

\* A loop of calls through a fresh Throttle of QPS 10 has run to its end.
SerialDone == serial /\ QPS = 10 /\ \A g \in Callers : tpc[g] = "done"

\* C17, as claimed: of n calls in a loop through a fresh Throttle of QPS 10 the
\* first asks for no wait and each of the others for a wait of about a window:
\* at least nine tenths of it, as the test has it.
C17_AsClaimed ==
    SerialDone =>
        /\ timers[1] = NoTimer
        /\ \A g \in Callers : g > 1 => 10 * timers[g] >= 9 * Window(10)

\* C17, amended: the first call asks for no wait; each of the others asks for
\* what is left of the window that follows the previous slot, and for nothing
\* when that window has passed: a whole window when the call is made at the
\* previous slot, more when it is made before it (the previous wait was cut
\* short), less or none when it is made after it (the transport took a part
\* of the window or all of it, or the previous wait ended late).
C17_Amended ==
    SerialDone =>
        /\ timers[1] = NoTimer
        /\ \A g \in Callers : g > 1 =>
              LET left == slots[g - 1] + Window(10) - tnow[g]
              IN  /\ timers[g] = IF left > 0 THEN left ELSE NoTimer
                  /\ tnow[g] = slots[g - 1] => timers[g] = Window(10)
                  /\ tnow[g] < slots[g - 1] => timers[g] > Window(10)
                  /\ tnow[g] > slots[g - 1] => timers[g] < Window(10)

\* C17's case: three calls in a loop, the transport answering at once: no
\* wait, then two waits of a window each, the calls 100 ms apart.
C17_Witness ==
    /\ SerialDone /\ TimeAfter = "nil"
    /\ timers = <<NoTimer, Window(10), Window(10)>>
    /\ invokedAt = <<0, Window(10), 2 * Window(10)>>

\* The keys of h that spell the name of k.
Named(h, k) == {x \in DOMAIN h : CanonicalMIMEHeaderKey(x) = CanonicalMIMEHeaderKey(k)}

\* What the documentation of Header promises of the headers sent, for a
\* configuration cfg and a request's headers old: a name configured with no
\* value is gone; with one value, it has that value and no other; with several,
\* they follow the values the name had; every other header is as it was.
HeaderAsDocumented(cfg, old, fwd) ==
    /\ \A k \in DOMAIN cfg :
          LET c == CanonicalMIMEHeaderKey(k)
          IN  CASE Len(cfg[k]) = 0 -> Named(fwd, k) = {}
                [] Len(cfg[k]) = 1 ->
                      /\ Named(fwd, k) # {}
                      /\ \A x \in Named(fwd, k) : fwd[x] = cfg[k]
                [] OTHER ->
                      /\ c \in DOMAIN fwd
                      /\ fwd[c] = (IF c \in DOMAIN old THEN old[c] ELSE <<>>) \o cfg[k]
                      /\ \A x \in Named(fwd, k) \cup Named(old, k) :
                            x # c => (x \in DOMAIN fwd /\ x \in DOMAIN old /\ fwd[x] = old[x])
    /\ \A x \in DOMAIN fwd \cup DOMAIN old :
          Named(cfg, x) = {} => (x \in DOMAIN fwd /\ x \in DOMAIN old /\ fwd[x] = old[x])

LogForwarded ==
    /\ out.value.calls = 1
    /\ out.value.err = arg.transport.err
    /\ out.value.resp.StatusCode = arg.transport.resp.StatusCode
    /\ out.value.resp.Body = (IF arg.transport.err = NoError THEN "logBody" ELSE "nil")

\* The transport was not called and Log returned nil and its own error.
LogRefused ==
    /\ out.value.calls = 0
    /\ out.value.resp = LogNilResp
    /\ out.value.err = PlainError(LogRequiresMsg)

\* C19, as claimed: Log.RoundTrip refuses a request that carries no
\* X-Request-ID header, and forwards once a request in which it is present.
C19_AsClaimed ==
    out.fn = "Log.RoundTrip" =>
        /\ Named(arg.req, "X-Request-ID") = {} => LogRefused
        /\ Named(arg.req, "X-Request-ID") # {} => LogForwarded

\* C19, amended: Log.RoundTrip refuses a request whose
\* Header.Get("X-Request-ID") is empty, which is so when the header is absent,
\* when its first value is empty, and when it is held under a key that is not
\* canonical; it forwards every other request once. Under RequestID every
\* request is forwarded once, with the generated id.
C19_Amended ==
    /\ out.fn = "Log.RoundTrip" =>
          /\ HeaderGet(arg.req, "X-Request-ID") = "" => LogRefused
          /\ HeaderGet(arg.req, "X-Request-ID") # "" => LogForwarded
          /\ (/\ "X-Request-Id" \in DOMAIN arg.req
              /\ arg.req["X-Request-Id"] # <<>>
              /\ arg.req["X-Request-Id"][1] # "") => LogForwarded
          /\ Named(arg.req, "X-Request-ID") = {} => LogRefused
    /\ out.fn = "RequestID.RoundTrip" => (LogForwarded /\ out.value.id \in GenIDs)

\* C19's cases: a request without the header was refused, ...
C19_WitnessRefused ==
    /\ out.fn = "Log.RoundTrip"
    /\ Named(arg.req, "X-Request-ID") = {}
    /\ "Test-A" \in DOMAIN arg.req
    /\ LogRefused

\* ... and one sent through RequestID reached the transport.
C19_Witness ==
    /\ out.fn = "RequestID.RoundTrip"
    /\ Named(arg.req, "X-Request-ID") = {}
    /\ arg.transport.err = NoError
    /\ LogForwarded

\* The calls of Close among what the caller did with the body.
Closes == {i \in DOMAIN capLog : capLog[i] = "Close"}

\* The first error other than EOF that a Read gave before the first Close.
FirstReadError ==
    LET c == CHOOSE i \in Closes : \A j \in Closes : i <= j
        bad == {i \in 1..(c - 1) : capLog[i] \notin {"nil", EOFMsg}}
    IN  IF bad = {} THEN NoError
        ELSE PlainError(capLog[CHOOSE i \in bad : \A j \in bad : i <= j])

\* C20, as claimed: every Capture.RoundTrip delivers exactly one Record on C.
\* Without a response, RoundTrip has sent it when it returns: the request, no
\* response, the transport's error. With a response, nothing is sent until the
\* caller closes the body, and the Record then sent holds the response with
\* the bytes the caller read and the first read error other than EOF.
C20_AsClaimed ==
    /\ capPc = "returned" =>
          /\ Len(C) = 1
          /\ C[1].Request = capSent
          /\ ~C[1].Response.present
          /\ C[1].Err = capRet.err
    /\ capPc = "body" =>
          IF Closes = {} THEN C = <<>>
          ELSE /\ Len(C) = 1
               /\ C[1].Request = capSent
               /\ C[1].Response.present
               /\ C[1].Response.StatusCode = capRet.resp.StatusCode
               /\ C[1].Response.Body = capContent
               /\ C[1].Err = FirstReadError

\* What C21 says of a request that is compressed: the transport is called
\* once with Content-Encoding set to the encoding and no Content-Length ...
PostLabelled ==
    /\ out.value.calls = 1
    /\ "Content-Encoding" \in DOMAIN out.value.fwd.Header
    /\ out.value.fwd.Header["Content-Encoding"] = <<arg.Encoding>>
    /\ Named(out.value.fwd.Header, "Content-Length") = {}

\* ... and with a body that decodes to the bytes of the request's body.
PostDecodes ==
    Decode(arg.Encoding, out.value.fwd.Body) = [data |-> arg.req.Body.data, ok |-> TRUE]

\* The request was forwarded as it came.
PostUntouched == out.value.calls = 1 /\ out.value.fwd = arg.req

\* RoundTrip returned nil and an error, and did not call the transport.
PostRefused == out.value.calls = 0 /\ out.value.resp = "nil" /\ out.value.err # ""

AcceptCE == HeaderGet(arg.transport.resp.Header, "Content-Encoding")

\* RoundTrip closed the body and returned nil and an error.
AcceptRefused ==
    /\ out.value.closed
    /\ ~out.value.resp.present
    /\ out.value.err # ""

\* RoundTrip returned the response with the two headers removed and the
\* decoder of its encoding in front of the body.
AcceptDecoded ==
    /\ out.value.resp.present
    /\ Named(out.value.resp.Header, "Content-Encoding") = {}
    /\ Named(out.value.resp.Header, "Content-Length") = {}
    /\ out.value.resp.Body.decoder = AcceptCE
    /\ ~out.value.closed

\* C22, as claimed: of a response, AcceptCompressed.RoundTrip refuses an
\* unknown Content-Encoding, returns what the transport gave for an empty one
\* and for identity, and returns the decoded response for br, gzip and zstd.
C22_AsClaimed ==
    (out.fn = "AcceptCompressed.RoundTrip" /\ arg.transport.resp.present) =>
        CASE AcceptCE \in {"br", "gzip", "zstd"} -> AcceptDecoded
          [] AcceptCE \in {"", "identity"} ->
                out.value.resp = arg.transport.resp /\ out.value.err = arg.transport.err
          [] OTHER -> AcceptRefused

\* C22, amended: the same, except that a response marked gzip whose body does
\* not start with a gzip header is refused like an unknown encoding; a
\* decoded response has ContentLength -1 and Uncompressed set, and reading its
\* body gives the bytes when they are in the encoding the header names.
C22_Amended ==
    (out.fn = "AcceptCompressed.RoundTrip" /\ arg.transport.resp.present) =>
        CASE AcceptCE \in {"br", "gzip", "zstd"} ->
                IF AcceptCE = "gzip" /\ arg.transport.resp.Body.enc # "gzip"
                THEN AcceptRefused
                ELSE /\ AcceptDecoded
                     /\ out.value.resp.ContentLength = -1
                     /\ out.value.resp.Uncompressed
                     /\ out.value.err = arg.transport.err
                     /\ arg.transport.resp.Body.enc = AcceptCE =>
                            ReadAllBody(out.value.resp.Body)
                                = [data |-> arg.transport.resp.Body.data, ok |-> TRUE]
          [] AcceptCE \in {"", "identity"} ->
                out.value.resp = arg.transport.resp /\ out.value.err = arg.transport.err
          [] OTHER -> AcceptRefused

\* C22's case: a zstd response with a Content-Length came back decoded.
C22_Witness ==
    /\ out.fn = "AcceptCompressed.RoundTrip"
    /\ AcceptCE = "zstd"
    /\ "Content-Length" \in DOMAIN arg.transport.resp.Header
    /\ arg.transport.resp.Body.enc = "zstd"
    /\ Len(arg.transport.resp.Body.data) = MaxBodyLen
    /\ AcceptDecoded
    /\ ReadAllBody(out.value.resp.Body).ok

\* The calls of Close among what the caller did with the logged body.
LogCloses == {i \in DOMAIN lbOps : lbOps[i] = "Close"}

\* The bytes the caller had read from the logged body so far.
BytesRead == lbBody.total - Len(lbBody.data)

\* The first error other than EOF of a Read before the first Close, or else
\* the error of that Close.
FirstBodyError ==
    LET c == CHOOSE i \in LogCloses : \A j \in LogCloses : i <= j
        bad == {i \in 1..(c - 1) : lbOps[i] \notin {"read", EOFMsg}}
    IN  IF bad # {} THEN lbOps[CHOOSE i \in bad : \A j \in bad : i <= j]
        ELSE lbBody.close

\* C23, as claimed: with IncludeResponseBody unset, the record logged when
\* the body is closed reports as size the number of bytes the caller read and
\* as err the first read error other than EOF, or else the error of Close; its
\* level is the configured one when err is nil, the error level otherwise.
C23_AsClaimed ==
    (~includeResponseBody /\ Cardinality(LogCloses) = 1) =>
        /\ Len(logged) = 1
        /\ logged[1].attr = "size"
        /\ logged[1].size = BytesRead
        /\ logged[1].err = FirstBodyError
        /\ logged[1].level = (IF FirstBodyError = "" THEN lbLevel ELSE "ERROR")

\* C24: every type with a Transport field has Unwrap; the n-th Unwrap along a
\* chain returns the transport configured in the n-th decorator, so that as
\* many Unwraps as there are decorators reach the innermost transport; and an
\* Unwrap changes nothing of the chain it is called on.
C24_Unwrap ==
    /\ [](/\ Decorators \subseteq Unwrappers
          /\ out.fn = "Unwrap" =>
                /\ out.n <= Len(arg.t.chain)
                /\ out.value = Transport(SubSeq(arg.t.chain, out.n + 1, Len(arg.t.chain)),
                                          arg.t.inner)
                /\ out.n = Len(arg.t.chain) =>
                      (out.value.chain = <<>> /\ out.value.inner = arg.t.inner))
    /\ [][arg' = arg /\ UNCHANGED <<retryVars, outsideRetry>>]_vars

\* C24's case: a chain of three different decorators unwrapped three times.
C24_Witness ==
    /\ out.fn = "Unwrap"
    /\ out.n = 3
    /\ arg.t.chain = <<"RequestID", "Log", "Retry">>
    /\ out.value = Transport(<<>>, "http.DefaultTransport")

\* C25: within one Retry.RoundTrip the attempts follow one another. A call of
\* the transport starts only when none is in flight; while attempt n+1 is in
\* flight, n waits have completed and the response of attempt n, if there is
\* one, is drained and closed; and while Retry decides or waits, the response
\* of the latest attempt is still open.
C25_Sequential ==
    /\ [](/\ pc = "transport" =>
                /\ waits = calls - 1
                /\ try = calls - 1
                /\ resp # NilResp => (resp.id = calls - 1 /\ resp.id \in closed)
          /\ pc \in {"loop", "select"} =>
                /\ waits = calls - 1
                /\ resp # NilResp => (resp.id = calls /\ resp.id \notin closed)
          /\ closed \subseteq 1..(calls - 1)
          /\ Cardinality(closed) <= waits)
    /\ [][calls' # calls =>
            (pc # "transport" /\ pc' = "transport" /\ calls' = calls + 1)]_vars

\* C25's case: the third attempt is in flight after two responses.
C25_Witness ==
    /\ pc = "transport"
    /\ calls = 3
    /\ closed = {1, 2}
    /\ waits = 2

\* C26: Retry has no cap of its own. Under a policy of the caller's own,
\* ShouldRetry is asked with try = 0 after the first call of the transport and
\* with one more after each retry, and with the response and error of the
\* latest call; a retry follows exactly when the policy says true, and
\* RoundTrip returns what it holds the first time the policy says false, so
\* that the transport was called once more than the policy said true.
C26_NoOwnCap ==
    /\ [](/\ pc = "loop" =>
                /\ try = calls - 1
                /\ resp # NilResp => resp.id = calls
          /\ pc = "select" => CustomShouldRetry(policy, cancelled, start, try, err, resp)
          /\ (pc = "transport" /\ calls > 1) =>
                CustomShouldRetry(policy, cancelled, start, try - 1, err, resp)
          /\ exit = "policy" =>
                /\ ~CustomShouldRetry(policy, cancelled, start, try, err, resp)
                /\ calls = 1 + try
                /\ waits = try
                /\ ret = [resp |-> resp, err |-> err])
    /\ [][try' # try => (try' = try + 1 /\ pc = "select" /\ calls' = calls + 1)]_vars

\* C26's case: a policy that retries errors MaxTry times was followed to its
\* end.
C26_Witness ==
    /\ exit = "policy"
    /\ IsCustom(policy)
    /\ policy.Max = MaxTry
    /\ policy.Codes = {}
    /\ calls = MaxTry + 1
    /\ err # NoError

\* C27: for a request with a body and no GetBody, when reading the body
\* fails RoundTrip returns nil and the read error and the transport is not
\* called; when it succeeds the caller's stream has been read to its end and
\* is left alone from then on, the request sent has a GetBody over the
\* buffered bytes, and every attempt starts from a copy holding all of them.
C27_Buffered ==
    (callerReq.Body.open /\ callerReq.GetBody = "nil" /\ pc # "idle") =>
        IF exit = "clone"
        THEN /\ calls = 0
             /\ ret = [resp |-> NilResp, err |-> PlainError(ReadMsg)]
        ELSE /\ calls > 0
             /\ callerReq.Body.data = <<>>
             /\ req.Body.owner = "copy"
             /\ req.GetBody = "buffer"
             /\ req.in = origBody
             /\ sent = origBody
             /\ exit # "getbody"

\* C27's case: the third attempt of a two-byte request without GetBody, after
\* the second attempt read the whole of its copy.
C27_Witness ==
    /\ pc = "transport"
    /\ calls = 3
    /\ callerReq.GetBody = "nil"
    /\ callerReq.Body.open
    /\ Len(origBody) = MaxBodyLen
    /\ req.Body.data = origBody
    /\ sent = origBody

\* C28: when req.GetBody fails as Retry prepares a retry, RoundTrip returns at
\* once with the error of GetBody, not the one of the previous attempt: the
\* step neither waits nor calls the transport, and nothing follows it.
C28_GetBodyFails ==
    /\ [](exit = "getbody" =>
            /\ pc = "done"
            /\ ret.err = PlainError(GetBodyMsg)
            /\ ret.err # err
            /\ calls = try + 1
            /\ waits = try)
    /\ [][(exit' = "getbody" \/ exit = "getbody") => UNCHANGED <<calls, waits, now, try>>]_vars

\* C28's case: GetBody failed before the second retry of a request that had
\* got a 503 twice.
C28_Witness ==
    /\ exit = "getbody"
    /\ calls = 2
    /\ waits = 1
    /\ resp.StatusCode = 503
    /\ err = NoError
    /\ ret.resp = resp

\* The texts of the errors that are a redirect limit, an unsupported scheme,
\* an invalid header or an untrusted certificate.
FatalTexts == {RedirectsMsg, SchemeMsg, InvalidHeaderMsg, NotTrustedMsg}

\* The errors that are a failed verification of the certificate by their type.
IsCertificateVerification(e) == e.inner = "*tls.CertificateVerificationError"

C30_NilResponseRetried ==
    /\ [](pc = "select" =>
            IF resp = NilResp
            THEN sleep = Backoff(policy.RetryPolicy, start, try)
            ELSE LET p == parseRetryAfterHeader(resp.RetryAfter)
                 IN  sleep = (IF p.ok THEN p.sleep
                              ELSE Backoff(policy.RetryPolicy, start, try)))
    /\ [][(pc = "select" /\ pc' = "transport" /\ resp = NilResp) =>
            /\ closed' = closed
            /\ calls' = calls + 1
            /\ try' = try + 1
            /\ now' = now + TimerSeconds(Backoff(policy.RetryPolicy, start, try))
            /\ exit' = "none"]_vars

\* C30's case: the third attempt is in flight after two that gave a
\* connection reset and no response.
C30_Witness ==
    /\ pc = "transport"
    /\ calls = 3
    /\ resp = NilResp
    /\ err = UrlError("error", ResetMsg)
    /\ closed = {}
    /\ waits = 2
    /\ now >= 3

\* The larger of two times.
MaxTime(a, b) == IF a >= b THEN a ELSE b

\* C31: with QPS > 0, a caller that holds the lock has computed, from the
\* lastRequest it found, sleep = window - (now - lastRequest) when lastRequest
\* is set and less than a window old, and 0 otherwise; nobody else writes
\* lastRequest meanwhile; and the write that follows sets lastRequest to
\* now + sleep, which is now for the first request and the later of now and
\* the old lastRequest + window for the others.
C31_SchedulingStep ==
    /\ [](\A g \in Callers : tpc[g] = "locked" =>
            /\ QPS > 0 /\ mu = g
            /\ lastRequest = reads[Len(reads)]
            /\ tsleep[g] = (IF lastRequest # ZeroTime /\ tnow[g] - lastRequest < Window(QPS)
                            THEN Window(QPS) - (tnow[g] - lastRequest)
                            ELSE 0))
    /\ [][\A g \in Callers : (tpc[g] = "locked" /\ tpc'[g] # "locked") =>
            /\ lastRequest' = tnow[g] + tsleep[g]
            /\ lastRequest' = (IF lastRequest = ZeroTime THEN tnow[g]
                               ELSE MaxTime(tnow[g], lastRequest + Window(QPS)))
            /\ mu' = 0]_vars

\* C31's case: with QPS = 10 the first request found no slot and took now; the
\* second came 50 ms later, was given the 50 ms left of the window and the
\* slot a window after the first; the third came after more than a window and
\* was given no wait and the slot now.
C31_Witness ==
    /\ QPS = 10 /\ Len(slots) = 3 /\ mu = 0
    /\ tnow = <<0, Tick, 4 * Tick>>
    /\ tsleep = <<0, Tick, 0>>
    /\ slots = <<0, Window(10), 4 * Tick>>
    /\ lastRequest = 4 * Tick

\* C32: a caller in its pacing wait or inside the call of the wrapped
\* transport does not hold the lock: the lock is held only by a caller between
\* its read and its write of lastRequest, and that caller can always write and
\* unlock; with the lock free, a caller that is next to call can always take it.
C32_LockOnlyForSlot ==
    /\ \A g \in Callers : tpc[g] \in {"select", "transport", "done", "idle"} => mu # g
    /\ mu # 0 => (tpc[mu] = "locked" /\ ENABLED ThrottleReserve(mu))
    /\ (QPS > 0 /\ mu = 0) => \A g \in Callers : MayEnter(g) => ENABLED ThrottleLock(g)

\* C32's case: the first caller is inside the transport call, the second is
\* in its wait, and the third holds the lock for its scheduling step.
C32_Witness ==
    /\ QPS = 10 /\ ~serial
    /\ tpc = <<"transport", "select", "locked">>
    /\ mu = 3
    /\ lockCount = 3

\* The callers f..g reached the scheduling step at the same reading of the
\* clock, f with no slot to wait for: it is the first request of all, or the
\* last slot is a window old or more.
SameInstantAfterIdle(f, g) ==
    /\ f <= g /\ tpc[g] # "idle"
    /\ \A h \in f..g : tnow[h] = tnow[g]
    /\ f = 1 \/ tnow[f] - slots[f - 1] >= Window(QPS)

\* C33: with QPS > 0, of the requests that reach the scheduling step at the
\* same instant, the first finding no slot to wait for however long the
\* Throttle was idle, the i-th in lock order (from 0) is given a wait of
\* i windows: only the first goes without delay.
C33_NoBurstCredit ==
    QPS > 0 =>
        \A f, g \in Callers :
            SameInstantAfterIdle(f, g) => tsleep[g] = (g - f) * Window(QPS)

\* C33's case: with a window of 50 ms, one request at 0, then nothing for
\* three windows, then two requests at the same instant: the first of them
\* goes without delay and the second waits a whole window.
C33_Witness ==
    /\ QPS = 20 /\ ~serial
    /\ tnow = <<0, 3 * Tick, 3 * Tick>>
    /\ tsleep = <<0, 0, Window(20)>>
    /\ slots = <<0, 3 * Tick, 4 * Tick>>

\* nil and context.Canceled.
NilAndCanceled == [resp |-> NilResp, err |-> PlainError(CanceledMsg)]

\* C34: with a Throttle of QPS > 0 as the Transport of a Retry with the
\* default policy, every attempt that got past the lock of the Throttle wrote
\* a slot of its own, a window or more after the previous one, and no attempt
\* reached the wrapped transport or returned without one; and when an attempt
\* left the Throttle by ctx.Done(), its request never reached the wrapped
\* transport, the Retry holds nil and context.Canceled, the policy stops, and
\* RoundTrip returns that pair with no further attempt.
C34_ThrottleInsideRetry ==
    /\ Len(slots) <= calls
    /\ pc \in {"loop", "select"} => Len(slots) = calls
    /\ (pc = "done" /\ exit # "clone") => Len(slots) = calls
    /\ \A i \in 1..Len(slots) - 1 : slots[i + 1] - slots[i] >= Window(QPS)
    /\ \A g \in Callers :
          /\ (invokedAt[g] # Never \/ tpc[g] \in {"select", "done"}) => g <= Len(slots)
          /\ tpc[g] # "idle" => g <= calls
          /\ tret[g] = ThrottleCtxReturn =>
                /\ g = calls /\ cancelled /\ invokedAt[g] = Never
                /\ pc \in {"transport", "loop", "done"}
                /\ pc = "loop" =>
                      /\ [resp |-> resp, err |-> err] = NilAndCanceled
                      /\ ~PolicyShouldRetry(policy, cancelled, start, try, err, resp)
                /\ pc = "done" => (ret = NilAndCanceled /\ exit = "policy")

\* C34's case: the first attempt got a 503, the retry was given a wait of a
\* window by the Throttle, the context was cancelled during that wait, and
\* RoundTrip returned nil and context.Canceled after two calls of the
\* Throttle and one of the wrapped transport.
C34_Witness ==
    /\ pc = "done" /\ calls = 2 /\ QPS = 10
    /\ closed = {1}
    /\ tret[2] = ThrottleCtxReturn /\ timers[2] = Window(10)
    /\ invokedAt = <<0, Never, Never>>
    /\ slots = <<0, Window(10)>>
    /\ ret = NilAndCanceled

\* Under an ExponentialBackoff, RoundTrip returns in the end; the loop counter
\* goes up by one with each call that follows a wait and stays as it is in
\* every other step, and never exceeds MaxTryCount.
FiniteReturns ==
    /\ <>(pc = "done" \/ IsAlways(Policy))
    /\ [](~IsAlways(policy) => (try = 0 \/ try <= policy.MaxTryCount))
    /\ [][IF pc = "select" /\ pc' = "transport" THEN try' = try + 1 ELSE try' = try]_vars

\* C35, as claimed: RoundTrip with an ExponentialBackoff returns in the end,
\* try going up by one per iteration and no further than MaxTryCount; with a
\* policy that always retries and a context that is not cancelled it never
\* returns.
C35_AsClaimed ==
    /\ FiniteReturns
    /\ []((IsAlways(policy) /\ ~cancelled) => pc # "done")

\* C35, amended: as claimed, but under the policy that always retries
\* RoundTrip does return without a cancellation when cloneRequestWithBody or
\* req.GetBody fails, and only then.
C35_Amended ==
    /\ FiniteReturns
    /\ []((IsAlways(policy) /\ ~cancelled /\ pc = "done") => exit \in {"clone", "getbody"})
    /\ []((IsAlways(policy) /\ pc = "done" /\ exit \notin {"clone", "getbody"}) =>
            (exit = "ctx" /\ cancelled))

\* C35's case: under the policy that always retries, a response of status 200
\* without an error was retried and the second attempt is in flight.
C35_Witness ==
    /\ IsAlways(policy) /\ ~cancelled
    /\ pc = "transport" /\ calls = 2 /\ try = 1
    /\ resp # NilResp /\ resp.StatusCode = 200 /\ err = NoError
    /\ closed = {1}

\* C35's other case: under MaxTryCount = 3, four attempts answered by 503 and
\* RoundTrip returned at try = 3.
C35_WitnessFinite ==
    /\ ~IsAlways(policy) /\ policy.MaxTryCount = 3
    /\ pc = "done" /\ exit = "policy" /\ try = 3 /\ calls = 4

\* C36: every response the transport produced is closed by Retry exactly once
\* or is the one handed back, untouched. The response of the attempt just
\* made is open while the policy is asked and during the wait; it is drained
\* and closed, once, before the next call, so that it is closed when the
\* next response takes its place; Retry closes nothing else; and by whichever
\* return RoundTrip ends after an attempt (the policy stops, ctx.Done() in the
\* wait, GetBody fails), it returns the response of the latest attempt, which
\* it has not closed, and has closed every response before it.
C36_BodyOwnership ==
    /\ [](/\ closed \subseteq 1..(calls - 1)
          /\ (pc \in {"loop", "select"} /\ resp # NilResp) =>
                (resp.id = calls /\ resp.id \notin closed)
          /\ (pc = "transport" /\ calls > 1 /\ resp # NilResp) =>
                (resp.id = calls - 1 /\ resp.id \in closed)
          /\ (pc = "done" /\ exit # "clone") =>
                /\ exit \in {"policy", "ctx", "getbody"}
                /\ ret.resp = resp
                /\ resp # NilResp => (resp.id = calls /\ resp.id \notin closed))
    /\ [][/\ closed' # closed =>
               (resp # NilResp /\ resp.id \notin closed /\ closed' = closed \cup {resp.id}
                /\ pc = "select" /\ pc' = "transport")
          /\ (pc = "transport" /\ pc' = "loop") => closed' = closed]_vars

\* C36's case: GetBody failed before the third attempt: the first response
\* was closed by Retry and the second is handed back open.
C36_Witness ==
    /\ pc = "done" /\ exit = "getbody"
    /\ calls = 2 /\ closed = {1}
    /\ ret.resp # NilResp /\ ret.resp.id = 2

\* C37, as claimed: when the context is cancelled as the select is entered and
\* the timer is ready at that same moment, its wait being zero or less, Retry
\* makes no further call of the transport and returns the response and the
\* error of the previous attempt.
C37_AsClaimed ==
    [][(pc = "select" /\ cancelled /\ ~Positive(sleep)) =>
          (pc' \in {"select", "done"} /\ calls' = calls /\ closed' = closed
           /\ (pc' = "done" => ret' = [resp |-> resp, err |-> err]))]_vars

\* C38: under an ExponentialBackoff, whenever a wait is entered, no more than
\* MaxDuration has passed since start; the wait is the whole Retry-After of
\* the response, when it has a usable one, and the whole Backoff of the
\* policy otherwise, whatever is left of MaxDuration; and the next attempt
\* starts when that wait has run to its end.
C38_MaxDurationAtDecision ==
    /\ [](pc = "select" =>
            /\ now - start <= policy.MaxDuration
            /\ LET p == parseRetryAfterHeader(resp.RetryAfter)
               IN  sleep = (IF p.ok THEN p.sleep ELSE Backoff(policy, start, try)))
    /\ [][(pc = "select" /\ pc' = "transport") => now' = now + TimerSeconds(sleep)]_vars

\* C38's case: the decision to retry was taken within MaxDuration, the server
\* asked for a wait longer than what was left, and the second attempt starts
\* after MaxDuration has passed.
C38_Witness ==
    /\ pc = "transport" /\ calls = 2
    /\ policy = DefaultRetryPolicy
    /\ resp.RetryAfter = IntHeader(SlowCall + 1)
    /\ now - start > policy.MaxDuration

\* C39: a request that leaves the wait by ctx.Done() leaves lastRequest as it
\* is, and lastRequest never goes back; the slot written for the cancelled
\* request, now + sleep, stays in the sequence of the slots, and every request
\* that takes the lock after it is given a slot a window or more later.
C39_ReservationKept ==
    /\ [](\A g \in Callers : tret[g] = ThrottleCtxReturn =>
            /\ invokedAt[g] = Never
            /\ slots[g] = tnow[g] + timers[g]
            /\ lastRequest >= slots[g]
            /\ \A h \in Callers :
                  (h > g /\ h <= Len(slots)) => slots[h] >= slots[g] + Window(QPS))
    /\ [][/\ (lastRequest # ZeroTime => lastRequest' >= lastRequest)
          /\ \A g \in Callers :
                (tpc[g] = "select" /\ tpc'[g] = "done") =>
                    (lastRequest' = lastRequest /\ slots' = slots)]_vars

\* C39's case: the second request was cancelled in its wait for the slot at
\* 100 ms and never issued; the third, arriving afterwards, was given the
\* slot at 200 ms.
C39_Witness ==
    /\ QPS = 10 /\ ~serial
    /\ tret[2] = ThrottleCtxReturn /\ invokedAt[2] = Never
    /\ tpc[2] = "done" /\ tpc[3] = "select" /\ tnow[3] > tnow[2]
    /\ slots = <<0, Window(10), 2 * Window(10)>>
    /\ lastRequest = 2 * Window(10)

\* C40: after Retry, Header, RequestID or AcceptCompressed has handled a
\* request, the caller's header map holds the keys and values it held, the
\* caller's struct has the Header, Body and GetBody it had (the stream Body
\* points to may have been read), and what went to the transport, if
\* anything, is another struct with another header map; the Body that Retry
\* assigns for a retry is assigned to that other struct.
C40_CallerUntouched ==
    out # NoCall =>
        LET after == out.value.heap
            mine == after.objs["caller"]
        IN  /\ after.maps["callerHeader"] = arg.Header
            /\ mine.Header = "callerHeader"
            /\ mine.GetBody = arg.request.GetBody
            /\ mine.Body.open = arg.request.Body.open
            /\ mine.Body.owner = arg.request.Body.owner
            /\ out.value.fwd # "caller"
            /\ out.value.fwd # "nil" =>
                  /\ after.objs[out.value.fwd].Header # "callerHeader"
                  /\ out.fn = "Retry" =>
                        after.maps[after.objs[out.value.fwd].Header] = arg.Header

\* C40's case: RequestID put its id in the clone's map, where the caller's
\* map has another under the same name and keeps it.
C40_Witness ==
    /\ out # NoCall /\ out.fn = "RequestID"
    /\ "X-Request-Id" \in DOMAIN arg.Header
    /\ out.value.heap.maps["cloneHeader"]["X-Request-Id"] = <<"id1">>
    /\ out.value.heap.maps["callerHeader"]["X-Request-Id"] = <<"old">>

\* C40's other case: Retry, having read the caller's body into a buffer, gave
\* its clone a GetBody and, for a retry, a new Body, the caller's request
\* still without a GetBody and with the stream it had.
C40_WitnessRetry ==
    /\ out # NoCall /\ out.fn = "Retry"
    /\ arg.request.GetBody = "nil" /\ arg.request.Body.open
    /\ out.value.fwd = "clone"
    /\ out.value.heap.objs["clone"].GetBody = "buffer"
    /\ out.value.heap.objs["clone"].Body.owner = "copy"
    /\ out.value.heap.objs["caller"].GetBody = "nil"
    /\ out.value.heap.objs["caller"].Body.owner = "caller"

====
